---- MODULE Spec2Model ----
(***************************************************************************)
(* A model of mcp-over-socks: the stdio <-> SSE / Streamable HTTP bridge.  *)
(*                                                                         *)
(*   Spec       one run of Bridge.Run with its goroutines. The repository  *)
(*              holds two generations of the bridge, and a run is one of:  *)
(*              "sse"        internal/bridge/bridge.go over an SSEClient   *)
(*                           (Run, readStdin, handleSSEEvents, and the     *)
(*                           client's readEvents);                         *)
(*              "streamable" the same Bridge over a StreamableHTTPClient   *)
(*                           (Run, readStdin);                             *)
(*              "sdk"        the Bridge built on the MCP Go SDK            *)
(*                           (Run, readStdin, handleResponses); the SDK's  *)
(*                           connection is the environment's.              *)
(*   FairSpec   Spec with weak fairness on every goroutine's steps (the Go *)
(*              scheduler runs a runnable goroutine); the environment      *)
(*              (cancellation, stdin, the wire) is not fair.               *)
(*   ParserSpec the line parser of SSEClient.readEvents applied to a       *)
(*              whole input drawn at the start.                            *)
(*                                                                         *)
(* Text that the code inspects character by character (SSE lines, content  *)
(* types) is a sequence of one-character strings; text that the code only  *)
(* passes on or hands to encoding/json (stdin lines, HTTP bodies) is a     *)
(* string.                                                                 *)
(***************************************************************************)
EXTENDS Integers, Sequences, FiniteSets, TLC

\* ------------------------------------------------------------------ bounds
\* What the environment feeds one run: a line on the SSE stream counts 1, a
\* line on stdin counts 2 (the line, and the outcome of the POST it causes).
MaxLoad == 4
\* Capacity of the delivery queue; make(chan ..., 100) in the source, scaled
\* down so that a full queue is reachable.
QueueCap == 1
\* Length of the input handed to the parser in ParserSpec.
MaxParse == 4

\* ------------------------------------------------------------ text helpers
\* strings.HasPrefix
HasPrefix(s, p) ==
    Len(s) >= Len(p) /\ SubSeq(s, 1, Len(p)) = p

\* strings.TrimPrefix
TrimPrefix(s, p) ==
    IF HasPrefix(s, p) THEN SubSeq(s, Len(p) + 1, Len(s)) ELSE s

\* strings.Join
RECURSIVE Join(_, _)
Join(parts, sep) ==
    IF Len(parts) = 0 THEN <<>>
    ELSE IF Len(parts) = 1 THEN parts[1]
    ELSE parts[1] \o sep \o Join(Tail(parts), sep)

Digits ==
    {"0", "1", "2", "3", "4", "5", "6", "7", "8", "9"}
HexDigits ==
    Digits \cup {"a", "b", "c", "d", "e", "f"}

\* strings.IndexByte and strings.LastIndexByte, 1-based; 0 when absent.
IndexByte(s, c) ==
    IF \E i \in 1..Len(s) : s[i] = c
    THEN CHOOSE i \in 1..Len(s) : s[i] = c /\ \A j \in 1..(i - 1) : s[j] # c
    ELSE 0

LastIndexByte(s, c) ==
    IF \E i \in 1..Len(s) : s[i] = c
    THEN CHOOSE i \in 1..Len(s) : s[i] = c /\ \A j \in (i + 1)..Len(s) : s[j] # c
    ELSE 0

Newline ==
    <<"\n">>
Space ==
    <<" ">>
PrefixData ==
    <<"d", "a", "t", "a", ":">>
PrefixEvent ==
    <<"e", "v", "e", "n", "t", ":">>
PrefixID ==
    <<"i", "d", ":">>
CTEventStream ==
    <<"t", "e", "x", "t", "/", "e", "v", "e", "n", "t", "-", "s", "t", "r", "e", "a", "m">>
CTEventStreamUTF8 ==
    <<"t", "e", "x", "t", "/", "e", "v", "e", "n", "t", "-", "s", "t", "r", "e", "a", "m", ";", " ", "c", "h", "a", "r", "s", "e", "t", "=", "u", "t", "f", "-", "8">>
CTJSON ==
    <<"a", "p", "p", "l", "i", "c", "a", "t", "i", "o", "n", "/", "j", "s", "o", "n">>

\* Lines of the SSE stream.
LData_a ==
    <<"d", "a", "t", "a", ":", " ", "a">>
LData_b ==
    <<"d", "a", "t", "a", ":", "b">>
LDataEmpty ==
    <<"d", "a", "t", "a", ":">>
LData2sp ==
    <<"d", "a", "t", "a", ":", " ", " ", "c">>
LEvent_m ==
    <<"e", "v", "e", "n", "t", ":", " ", "m">>
LID_1 ==
    <<"i", "d", ":", " ", "1">>
LComment ==
    <<":", " ", "c">>
LRetry ==
    <<"r", "e", "t", "r", "y", ":", " ", "5">>
LBlank ==
    <<>>

\* The lines ParserSpec draws its input from.
WireLines ==
    {LBlank, LData_a, LData_b, LDataEmpty, LData2sp, LEvent_m, LID_1, LComment, LRetry}

\* The lines the remote peer may write during a run.
RunWireLines ==
    {LBlank, LData_a, LData_b, LDataEmpty}

\* ------------------------------------------------------------------ errors
\* An error value: nil, or its own message (Message), the identity of the
\* error at the end of its Unwrap chain (Err: the name of a sentinel of
\* errors.go, or "none" for any other error value), and what Error() returns
\* (text, as the pieces it is concatenated from). The chains built here are
\* linear and the sentinels wrap nothing, so errors.Is(e, sentinel) holds
\* exactly when the chain of e ends in that sentinel.
NilErr ==
    [nil |-> TRUE, Message |-> "", Err |-> "none", text |-> <<>>]

\* errors.New / fmt.Errorf / *SSEError: an error that wraps no sentinel.
PlainErr(msg) ==
    [nil |-> FALSE, Message |-> msg, Err |-> "none", text |-> <<msg>>]

\* The sentinels of errors.go.
Sentinels ==
    {"ErrInvalidConfig", "ErrProxyConnection", "ErrServerConnection", "ErrTimeout",
     "ErrConnectionClosed"}

\* The text each sentinel was made with (errors.New).
SentinelText(name) ==
    CASE name = "ErrInvalidConfig"    -> "invalid configuration"
      [] name = "ErrProxyConnection"  -> "failed to connect to SOCKS proxy"
      [] name = "ErrServerConnection" -> "failed to connect to MCP server"
      [] name = "ErrTimeout"          -> "request timeout"
      [] OTHER                        -> "connection closed"

\* The sentinel itself, as an error value.
SentinelErr(name) ==
    [nil |-> FALSE, Message |-> SentinelText(name), Err |-> name,
     text |-> <<SentinelText(name)>>]

\* WrapError(err, message): &BridgeError{Message, Err}, or nil for a nil err.
WrapError(err, message) ==
    IF err.nil THEN NilErr
    ELSE [nil |-> FALSE, Message |-> message, Err |-> err.Err,
          text |-> <<message, ": ">> \o err.text]

\* errors.Is, comparing what Error() returns instead of identities.
ErrorsIsByText(e, target) ==
    ~e.nil /\ e.text[Len(e.text)] = SentinelText(target)

\* errors.Is(e, target) for a sentinel target, over the Unwrap chain of e.
ErrorsIs(e, target) ==
    ~e.nil /\ e.Err = target

IsProxyError(e) ==
    ErrorsIs(e, "ErrProxyConnection")

IsServerError(e) ==
    ErrorsIs(e, "ErrServerConnection")

IsTimeoutError(e) ==
    ErrorsIs(e, "ErrTimeout")

\* The advice FormatUserFriendlyError gives for each kind of error.
Remediation(name) ==
    CASE name = "ErrProxyConnection" ->
             "Cannot connect to SOCKS proxy. Please check:\n  1. The SOCKS proxy is running\n  2. The proxy address is correct (e.g., socks5://localhost:1080)\n  3. No firewall is blocking the connection"
      [] name = "ErrServerConnection" ->
             "Cannot connect to MCP server. Please check:\n  1. The MCP server is running\n  2. The server URL is correct\n  3. The server is accessible through the SOCKS proxy"
      [] name = "ErrTimeout" ->
             "Request timed out. Please check:\n  1. Network connectivity\n  2. Server responsiveness\n  3. Consider increasing --timeout value"
      [] OTHER ->
             "Invalid configuration. Run 'mcp-over-socks --help' for usage."

\* FormatUserFriendlyError: the text shown to the user, as pieces.
FormatUserFriendlyError(e) ==
    IF e.nil THEN <<>>
    ELSE IF ErrorsIs(e, "ErrProxyConnection") THEN <<Remediation("ErrProxyConnection")>>
    ELSE IF ErrorsIs(e, "ErrServerConnection") THEN <<Remediation("ErrServerConnection")>>
    ELSE IF ErrorsIs(e, "ErrTimeout") THEN <<Remediation("ErrTimeout")>>
    ELSE IF ErrorsIs(e, "ErrInvalidConfig") THEN <<Remediation("ErrInvalidConfig")>>
    ELSE e.text

\* ------------------------------------------------------- the stream parser
\* SSEEvent{} and the parser's locals (event, dataLines) of readEvents.
ZeroEvent ==
    [Event |-> <<>>, Data |-> <<>>, ID |-> <<>>]

ZeroParser ==
    [event |-> ZeroEvent, dataLines |-> <<>>]

\* readEvents' loop body with a final else that clears the accumulated state
\* on a line of no known field.
ParseLineUnknownResets(st, line) ==
    IF line = <<>> THEN
        IF Len(st.dataLines) > 0
        THEN [st   |-> ZeroParser,
              emit |-> <<[st.event EXCEPT !.Data = Join(st.dataLines, Newline)]>>]
        ELSE [st |-> st, emit |-> <<>>]
    ELSE IF HasPrefix(line, PrefixData) THEN
        [st   |-> [st EXCEPT !.dataLines =
                      Append(@, TrimPrefix(TrimPrefix(line, PrefixData), Space))],
         emit |-> <<>>]
    ELSE IF HasPrefix(line, PrefixEvent) THEN
        [st   |-> [st EXCEPT !.event.Event =
                      TrimPrefix(TrimPrefix(line, PrefixEvent), Space)],
         emit |-> <<>>]
    ELSE IF HasPrefix(line, PrefixID) THEN
        [st   |-> [st EXCEPT !.event.ID =
                      TrimPrefix(TrimPrefix(line, PrefixID), Space)],
         emit |-> <<>>]
    ELSE [st |-> ZeroParser, emit |-> <<>>]

\* One iteration of readEvents' loop body on `line`, queue hand-off apart:
\* the parser's next state and the events to hand off (none or one).
ParseLine(st, line) ==
    IF line = <<>> THEN
        IF Len(st.dataLines) > 0
        THEN [st   |-> ZeroParser,
              emit |-> <<[st.event EXCEPT !.Data = Join(st.dataLines, Newline)]>>]
        ELSE [st |-> st, emit |-> <<>>]
    ELSE IF HasPrefix(line, PrefixData) THEN
        [st   |-> [st EXCEPT !.dataLines =
                      Append(@, TrimPrefix(TrimPrefix(line, PrefixData), Space))],
         emit |-> <<>>]
    ELSE IF HasPrefix(line, PrefixEvent) THEN
        [st   |-> [st EXCEPT !.event.Event =
                      TrimPrefix(TrimPrefix(line, PrefixEvent), Space)],
         emit |-> <<>>]
    ELSE IF HasPrefix(line, PrefixID) THEN
        [st   |-> [st EXCEPT !.event.ID =
                      TrimPrefix(TrimPrefix(line, PrefixID), Space)],
         emit |-> <<>>]
    ELSE [st |-> st, emit |-> <<>>]

\* readEvents' loop over `lines` from parser state st: the events it hands
\* off, in order, after `out`.
RECURSIVE ParseAll(_, _, _)
ParseAll(lines, st, out) ==
    IF lines = <<>> THEN out
    ELSE LET r == ParseLine(st, Head(lines))
         IN  ParseAll(Tail(lines), r.st, out \o r.emit)

\* ------------------------------------------------------------ local stream
\* Lines the local client may write to stdin.
Req1 ==
    "{\"jsonrpc\":\"2.0\",\"id\":1,\"method\":\"ping\"}"
Req2 ==
    "{\"jsonrpc\":\"2.0\",\"id\":2,\"method\":\"ping\"}"

StdinLines ==
    {"", "{bad", "7", Req1, Req2}

\* The reply a well-behaved peer gives to a request.
ReplyBody(line) ==
    CASE line = Req1 -> "{\"jsonrpc\":\"2.0\",\"id\":1,\"result\":0}"
      [] line = Req2 -> "{\"jsonrpc\":\"2.0\",\"id\":2,\"result\":0}"
      [] OTHER -> "{\"jsonrpc\":\"2.0\",\"id\":null,\"result\":0}"

\* json.Valid, on the texts of this model.
JsonValid(text) ==
    text \in {"7", Req1, Req2} \cup {ReplyBody(l) : l \in StdinLines}

\* jsonrpc.DecodeMessage returns no error, on the texts of this model: the
\* text is a JSON-RPC 2.0 message.
DecodesAsMessage(text) ==
    text \in {Req1, Req2} \cup {ReplyBody(l) : l \in StdinLines}

\* Further requests a client may send: a notification (no id), and requests
\* whose id is a string, null, and a number above 2^53.
ReqNote ==
    "{\"jsonrpc\":\"2.0\",\"method\":\"ping\"}"
ReqStr ==
    "{\"jsonrpc\":\"2.0\",\"id\":\"a\",\"method\":\"ping\"}"
ReqNull ==
    "{\"jsonrpc\":\"2.0\",\"id\":null,\"method\":\"ping\"}"
ReqBig ==
    "{\"jsonrpc\":\"2.0\",\"id\":9007199254740993,\"method\":\"ping\"}"

\* The JSON texts of the ids above.
IDBig ==
    <<"9", "0", "0", "7", "1", "9", "9", "2", "5", "4", "7", "4", "0", "9", "9", "3">>
IDBigAsFloat64 ==
    <<"9", "0", "0", "7", "1", "9", "9", "2", "5", "4", "7", "4", "0", "9", "9", "2">>
IDStr ==
    <<"\"", "a", "\"">>
IDNull ==
    <<"n", "u", "l", "l">>

\* The "id" member of the text read as a JSON object: its kind and its JSON
\* text; absent when the object has none or the text is no object.
IDMember(request) ==
    CASE request = Req1    -> [kind |-> "number", tok |-> <<"1">>]
      [] request = Req2    -> [kind |-> "number", tok |-> <<"2">>]
      [] request = ReqBig  -> [kind |-> "number", tok |-> IDBig]
      [] request = ReqStr  -> [kind |-> "string", tok |-> IDStr]
      [] request = ReqNull -> [kind |-> "null", tok |-> IDNull]
      [] OTHER             -> [kind |-> "absent", tok |-> <<>>]

\* The float64 nearest to a non-negative integer literal, as json.Marshal
\* writes it back: integers of up to 15 digits are below 2^53 and exact; of
\* the longer ones this model has 2^53 + 1, which rounds to 2^53.
Float64(digits) ==
    IF Len(digits) <= 15 THEN digits
    ELSE IF digits = IDBig THEN IDBigAsFloat64
    ELSE digits

\* json.Unmarshal(request, &req) with req.ID of type interface{}: a number
\* becomes a float64, a string a string, and req.ID stays nil for null, for a
\* missing member and when Unmarshal fails (the text is no object).
UnmarshalID(request) ==
    LET m == IDMember(request)
    IN  CASE m.kind = "number" -> [t |-> "float64", v |-> Float64(m.tok)]
          [] m.kind = "string" -> [t |-> "string", v |-> m.tok]
          [] OTHER             -> [t |-> "nil", v |-> <<>>]

\* json.Marshal of req.ID inside the response map.
MarshalID(id) ==
    IF id.t = "nil" THEN IDNull ELSE id.v

\* The id sendErrorResponse puts in its reply: req.ID as extracted from the
\* request and marshalled again.
ExtractID(request) ==
    MarshalID(UnmarshalID(request))

\* The line sendErrorResponse writes for `request` after Send failed with msg.
ErrorResponse(request, msg) ==
    [kind |-> "error", jsonrpc |-> "2.0", id |-> ExtractID(request),
     code |-> -32000, message |-> msg]

\* The line a pump writes for an event's data.
DataLine(data) ==
    [kind |-> "data", data |-> data]

\* What a read of stdin yields next: nothing yet, a line, the end, an error.
NoLine ==
    [t |-> "none", v |-> ""]
StdinEOF ==
    [t |-> "eof", v |-> ""]
StdinErr ==
    [t |-> "err", v |-> ""]
StdinLine(l) ==
    [t |-> "line", v |-> l]

\* What a read of the SSE response body yields next.
NoWire ==
    [t |-> "none", v |-> <<>>]
WireEOF ==
    [t |-> "eof", v |-> <<>>]
WireErr ==
    [t |-> "err", v |-> <<>>]
WireLine(l) ==
    [t |-> "line", v |-> l]

\* ------------------------------------------------------------ HTTP exchange
\* How one httpClient.Do ends: the SOCKS proxy could not be used ("proxy"),
\* the peer could not be reached through it ("net"), the request's context
\* ended ("ctx"), or a response came back ("resp").
NoExchange ==
    [via |-> "none", status |-> 0, ctype |-> <<>>, body |-> ""]

Failed(via) ==
    [via |-> via, status |-> 0, ctype |-> <<>>, body |-> ""]

Response(status, ctype, body) ==
    [via |-> "resp", status |-> status, ctype |-> ctype, body |-> body]

\* The exchanges Connect may see.
ConnectExchanges(k, done) ==
    IF done THEN {Failed("ctx")}
    ELSE {Failed("proxy"), Failed("net")} \cup
         (CASE k = "sse" ->
                 {Response(200, ct, "") : ct \in {CTEventStream, CTEventStreamUTF8, CTJSON}}
                 \cup {Response(404, CTEventStream, "")}
            [] k = "streamable" ->
                 {Response(st, CTJSON, "") : st \in {200, 399, 400, 404, 405, 406}}
            [] OTHER ->
                 {Response(st, CTJSON, "") : st \in {200, 404}})

\* The exchanges Send may see for `line`.
SendExchanges(k, done, line) ==
    (IF done THEN {Failed("ctx")} ELSE {}) \cup {Failed("net")} \cup
    (CASE k = "sse" ->
            {Response(st, CTJSON, "") : st \in {199, 200, 299, 300}}
       [] k = "streamable" ->
            {Response(st, CTJSON, b) : st \in {199, 200, 299, 300},
                                       b \in {ReplyBody(line), "oops"}}
       [] OTHER ->
            {Response(200, CTJSON, "")})

\* Text of the error Do returns.
DoErrText(x) ==
    CASE x.via = "proxy" -> "socks connect: connection refused"
      [] x.via = "net"   -> "connection reset by peer"
      [] x.via = "ctx"   -> "context canceled"
      [] OTHER           -> ""

\* ------------------------------------------------------------- transports
\* The transport's own fields: closed, conn (nil or the GET response's body),
\* and whether close(eventsCh) was executed; body is the state of the GET
\* response's body; connCloses counts the calls of c.conn.Close() and
\* chCloses the executions of close(c.eventsCh).
NewTransport ==
    [closed |-> FALSE, conn |-> "nil", body |-> "none", chClosed |-> FALSE,
     connCloses |-> 0, chCloses |-> 0]

SSEConnectAnyStatus(t, x) ==
    IF x.via # "resp"
    THEN [err |-> PlainErr(DoErrText(x)), t |-> t, reader |-> FALSE]
    ELSE [err |-> NilErr, t |-> [t EXCEPT !.conn = "body", !.body = "open"],
          reader |-> TRUE]

\* SSEClient.Connect: the error, the transport after it, whether readEvents
\* was started.
SSEConnect(t, x) ==
    IF x.via # "resp"
    THEN [err |-> PlainErr(DoErrText(x)), t |-> t, reader |-> FALSE]
    ELSE IF x.status # 200
    THEN [err |-> PlainErr("SSE server returned status (expected 200)"),
          t |-> [t EXCEPT !.body = "closed"], reader |-> FALSE]
    ELSE IF ~HasPrefix(x.ctype, CTEventStream)
    THEN [err |-> PlainErr("Unexpected content type"),
          t |-> [t EXCEPT !.body = "closed"], reader |-> FALSE]
    ELSE [err |-> NilErr, t |-> [t EXCEPT !.conn = "body", !.body = "open"],
          reader |-> TRUE]

\* StreamableHTTPClient.Connect without the exception for 405.
StreamableConnectStrict(t, x) ==
    IF x.via # "resp"
    THEN [err |-> PlainErr(DoErrText(x)), t |-> t, reader |-> FALSE]
    ELSE IF x.status >= 400
    THEN [err |-> PlainErr("Server returned status"), t |-> t, reader |-> FALSE]
    ELSE [err |-> NilErr, t |-> t, reader |-> FALSE]

\* StreamableHTTPClient.Connect; the OPTIONS response's body is closed on
\* return and is not the transport's.
StreamableConnect(t, x) ==
    IF x.via # "resp"
    THEN [err |-> PlainErr(DoErrText(x)), t |-> t, reader |-> FALSE]
    ELSE IF x.status >= 400 /\ x.status # 405
    THEN [err |-> PlainErr("Server returned status"), t |-> t, reader |-> FALSE]
    ELSE [err |-> NilErr, t |-> t, reader |-> FALSE]

\* transport.Connect of the SDK's transports: the SDK decides; here it
\* succeeds exactly on a 200.
SDKConnect(t, x) ==
    IF x.via # "resp"
    THEN [err |-> PlainErr(DoErrText(x)), t |-> t, reader |-> FALSE]
    ELSE IF x.status # 200
    THEN [err |-> PlainErr("sdk: connect failed"), t |-> t, reader |-> FALSE]
    ELSE [err |-> NilErr, t |-> [t EXCEPT !.conn = "sdk"], reader |-> FALSE]

\* b.transport.Connect, or the SDK transport's Connect
TransportConnect(k, t, x) ==
    CASE k = "sse" -> SSEConnect(t, x)
      [] k = "streamable" -> StreamableConnect(t, x)
      [] OTHER -> SDKConnect(t, x)

\* SSEClient.Send taking every response for a success.
SSESendAnyStatus(x) ==
    IF x.via # "resp" THEN PlainErr("failed to send request") ELSE NilErr

\* SSEClient.Send: the error it returns.
SSESend(x) ==
    IF x.via # "resp" THEN PlainErr("failed to send request")
    ELSE IF x.status < 200 \/ x.status >= 300 THEN PlainErr("server returned status")
    ELSE NilErr

\* StreamableHTTPClient.Send without its json.Valid check.
StreamableSendNoValidate(x) ==
    IF x.via # "resp" THEN PlainErr("failed to send request")
    ELSE IF x.status < 200 \/ x.status >= 300 THEN PlainErr("server returned status")
    ELSE NilErr

\* StreamableHTTPClient.Send up to the hand-off: the error it returns before
\* it reaches the select on the delivery queue, or nil.
StreamableSend(x) ==
    IF x.via # "resp" THEN PlainErr("failed to send request")
    ELSE IF x.status < 200 \/ x.status >= 300 THEN PlainErr("server returned status")
    ELSE IF ~JsonValid(x.body) THEN PlainErr("invalid JSON response from server")
    ELSE NilErr

\* conn.Write of the SDK's connection: the error it returns.
SDKWrite(x) ==
    IF x.via # "resp" THEN PlainErr("sdk: write failed") ELSE NilErr

\* SSEClient.Close without its `if c.closed` guard.
SSECloseUnguarded(t) ==
    [t EXCEPT !.closed = TRUE,
              !.body = IF t.conn # "nil" THEN "closed" ELSE @,
              !.connCloses = IF t.conn # "nil" THEN @ + 1 ELSE @]

\* SSEClient.Close
SSEClose(t) ==
    IF t.closed THEN t
    ELSE [t EXCEPT !.closed = TRUE,
                   !.body = IF t.conn # "nil" THEN "closed" ELSE @,
                   !.connCloses = IF t.conn # "nil" THEN @ + 1 ELSE @]

\* StreamableHTTPClient.Close
StreamableClose(t) ==
    IF t.closed THEN t
    ELSE [t EXCEPT !.closed = TRUE, !.chClosed = TRUE, !.chCloses = @ + 1]

\* conn.Close of the SDK's connection
SDKClose(t) ==
    [t EXCEPT !.closed = TRUE]

\* b.transport.Close, or conn.Close
TransportClose(k, t) ==
    CASE k = "sse" -> SSEClose(t)
      [] k = "streamable" -> StreamableClose(t)
      [] OTHER -> SDKClose(t)

\* What Close returns on transport t: nil when already closed; SSEClient's
\* first Close returns what c.conn.Close() returned (connErr).
CloseReturns(k, t, connErr) ==
    IF k = "sse" /\ ~t.closed /\ t.conn # "nil" THEN connErr ELSE NilErr

\* ------------------------------------------------------ transport choice
\* strings.ToLower on the ASCII letters.
UpperCase ==
    <<"A", "B", "C", "D", "E", "F", "G", "H", "I", "J", "K", "L", "M",
      "N", "O", "P", "Q", "R", "S", "T", "U", "V", "W", "X", "Y", "Z">>
LowerCase ==
    <<"a", "b", "c", "d", "e", "f", "g", "h", "i", "j", "k", "l", "m",
      "n", "o", "p", "q", "r", "s", "t", "u", "v", "w", "x", "y", "z">>

ToLower(s) ==
    [i \in 1..Len(s) |->
        IF \E k \in 1..26 : UpperCase[k] = s[i]
        THEN LowerCase[CHOOSE k \in 1..26 : UpperCase[k] = s[i]]
        ELSE s[i]]

\* ParseTransportType without strings.ToLower.
ParseTransportTypeExact(s) ==
    IF s = <<"s", "s", "e">> THEN "sse"
    ELSE IF s \in {<<"s", "t", "r", "e", "a", "m", "a", "b", "l", "e">>,
                   <<"h", "t", "t", "p">>}
    THEN "streamable"
    ELSE "auto"

\* ParseTransportType: the TransportType constant it returns.
ParseTransportType(s) ==
    IF ToLower(s) = <<"s", "s", "e">> THEN "sse"
    ELSE IF ToLower(s) \in {<<"s", "t", "r", "e", "a", "m", "a", "b", "l", "e">>,
                            <<"h", "t", "t", "p">>}
    THEN "streamable"
    ELSE "auto"

\* A content type that is neither of the two the detector knows.
CTHtml ==
    <<"t", "e", "x", "t", "/", "h", "t", "m", "l">>

\* The exchanges the detection GET may see.
DetectExchanges ==
    {Failed("proxy"), Failed("net"), Failed("ctx")} \cup
    {Response(st, ct, "") : st \in {200, 404},
                            ct \in {CTEventStream, CTEventStreamUTF8, CTJSON,
                                    CTHtml, <<>>}}

\* DetectTransportType, classifying any response it cannot place as
\* Streamable HTTP.
DetectTransportTypeDefaultJSON(x) ==
    IF x.via # "resp"
    THEN [type |-> "auto", err |-> PlainErr(DoErrText(x)), gets |-> 1]
    ELSE IF HasPrefix(x.ctype, CTEventStream)
    THEN [type |-> "sse", err |-> NilErr, gets |-> 1]
    ELSE [type |-> "streamable", err |-> NilErr, gets |-> 1]

\* DetectTransportType on the exchange its one client.Do saw: the type and
\* error it returns and the GET requests it issued.
DetectTransportType(x) ==
    IF x.via # "resp"
    THEN [type |-> "auto", err |-> PlainErr(DoErrText(x)), gets |-> 1]
    ELSE IF HasPrefix(x.ctype, CTEventStream)
    THEN [type |-> "sse", err |-> NilErr, gets |-> 1]
    ELSE IF HasPrefix(x.ctype, CTJSON)
    THEN [type |-> "streamable", err |-> NilErr, gets |-> 1]
    ELSE [type |-> "sse", err |-> NilErr, gets |-> 1]

\* CreateTransport: the kind of client it builds.
CreateTransport(transportType) ==
    IF transportType = "streamable" THEN "streamable" ELSE "sse"

\* ---------------------------------------------------------- configuration
\* The part of s before the first of the characters in stops.
UpTo(s, stops) ==
    IF \E i \in 1..Len(s) : s[i] \in stops
    THEN SubSeq(s, 1, (CHOOSE i \in 1..Len(s) :
                          s[i] \in stops /\ \A j \in 1..(i - 1) : s[j] \notin stops) - 1)
    ELSE s

\* url.Parse(s) for the absolute URLs given here: whether it fails (a port
\* that is not a number, a blank in the host) and the Host of the result
\* (the authority after "//", without the user information).
URLParse(s) ==
    LET c    == IndexByte(s, ":")
        auth == IF c # 0 /\ Len(s) >= c + 2 /\ s[c + 1] = "/" /\ s[c + 2] = "/"
                THEN UpTo(SubSeq(s, c + 3, Len(s)), {"/", "?", "#"})
                ELSE <<>>
        at   == LastIndexByte(auth, "@")
        host == SubSeq(auth, at + 1, Len(auth))
        pc   == LastIndexByte(host, ":")
        port == IF pc = 0 THEN <<>> ELSE SubSeq(host, pc + 1, Len(host))
    IN  [err  |-> \/ \E j \in 1..Len(port) : port[j] \notin Digits
                  \/ \E j \in 1..Len(host) : host[j] = " ",
         Host |-> host]

PrefixSocks5 ==
    <<"s", "o", "c", "k", "s", "5", ":", "/", "/">>
PrefixSocks5h ==
    <<"s", "o", "c", "k", "s", "5", "h", ":", "/", "/">>
PrefixHTTP ==
    <<"h", "t", "t", "p", ":", "/", "/">>
PrefixHTTPS ==
    <<"h", "t", "t", "p", "s", ":", "/", "/">>

\* Config.Validate, also admitting socks5h:// proxy addresses.
ValidateWithSocks5h(c) ==
    IF c.ProxyAddr = <<>>
    THEN [check |-> 1, err |-> PlainErr("proxy address is required (use --proxy)")]
    ELSE IF ~HasPrefix(c.ProxyAddr, PrefixSocks5) /\ ~HasPrefix(c.ProxyAddr, PrefixSocks5h)
    THEN [check |-> 2, err |-> PlainErr("proxy address must start with socks5:// or socks5h://")]
    ELSE IF URLParse(c.ProxyAddr).err
    THEN [check |-> 3, err |-> PlainErr("invalid proxy address format")]
    ELSE IF URLParse(c.ProxyAddr).Host = <<>>
    THEN [check |-> 3, err |-> PlainErr("proxy address must include host")]
    ELSE IF c.ServerURL = <<>>
    THEN [check |-> 4, err |-> PlainErr("server URL is required (use --server)")]
    ELSE IF ~HasPrefix(c.ServerURL, PrefixHTTP) /\ ~HasPrefix(c.ServerURL, PrefixHTTPS)
    THEN [check |-> 5, err |-> PlainErr("server URL must start with http:// or https://")]
    ELSE IF URLParse(c.ServerURL).err
    THEN [check |-> 6, err |-> PlainErr("invalid server URL format")]
    ELSE IF URLParse(c.ServerURL).Host = <<>>
    THEN [check |-> 6, err |-> PlainErr("server URL must include host")]
    ELSE IF c.Timeout <= 0
    THEN [check |-> 7, err |-> PlainErr("timeout must be positive")]
    ELSE [check |-> 0, err |-> NilErr]

\* Config.Validate: the error it returns and the check that produced it
\* (1 proxy address given, 2 its scheme, 3 its format and host, 4 server URL
\* given, 5 its scheme, 6 its format and host, 7 the timeout; 0 for nil).
Validate(c) ==
    IF c.ProxyAddr = <<>>
    THEN [check |-> 1, err |-> PlainErr("proxy address is required (use --proxy)")]
    ELSE IF ~HasPrefix(c.ProxyAddr, PrefixSocks5)
    THEN [check |-> 2, err |-> PlainErr("proxy address must start with socks5://")]
    ELSE IF URLParse(c.ProxyAddr).err
    THEN [check |-> 3, err |-> PlainErr("invalid proxy address format")]
    ELSE IF URLParse(c.ProxyAddr).Host = <<>>
    THEN [check |-> 3, err |-> PlainErr("proxy address must include host")]
    ELSE IF c.ServerURL = <<>>
    THEN [check |-> 4, err |-> PlainErr("server URL is required (use --server)")]
    ELSE IF ~HasPrefix(c.ServerURL, PrefixHTTP) /\ ~HasPrefix(c.ServerURL, PrefixHTTPS)
    THEN [check |-> 5, err |-> PlainErr("server URL must start with http:// or https://")]
    ELSE IF URLParse(c.ServerURL).err
    THEN [check |-> 6, err |-> PlainErr("invalid server URL format")]
    ELSE IF URLParse(c.ServerURL).Host = <<>>
    THEN [check |-> 6, err |-> PlainErr("server URL must include host")]
    ELSE IF c.Timeout <= 0
    THEN [check |-> 7, err |-> PlainErr("timeout must be positive")]
    ELSE [check |-> 0, err |-> NilErr]

\* The proxy addresses given to --proxy: none, socks5://p:1, socks5h://p:1,
\* socks5://u:w@p:1, http://p:1, socks5:// and socks5://p:x.
ProxyAddrs ==
    {<<>>,
     <<"s", "o", "c", "k", "s", "5", ":", "/", "/", "p", ":", "1">>,
     <<"s", "o", "c", "k", "s", "5", "h", ":", "/", "/", "p", ":", "1">>,
     <<"s", "o", "c", "k", "s", "5", ":", "/", "/", "u", ":", "w", "@", "p", ":", "1">>,
     <<"h", "t", "t", "p", ":", "/", "/", "p", ":", "1">>,
     <<"s", "o", "c", "k", "s", "5", ":", "/", "/">>,
     <<"s", "o", "c", "k", "s", "5", ":", "/", "/", "p", ":", "x">>}

\* The URLs given to --server: none, http://h/sse, https://h/sse,
\* ftp://h/sse, http:// and http://h:x/.
ServerURLs ==
    {<<>>,
     <<"h", "t", "t", "p", ":", "/", "/", "h", "/", "s", "s", "e">>,
     <<"h", "t", "t", "p", "s", ":", "/", "/", "h", "/", "s", "s", "e">>,
     <<"f", "t", "p", ":", "/", "/", "h", "/", "s", "s", "e">>,
     <<"h", "t", "t", "p", ":", "/", "/">>,
     <<"h", "t", "t", "p", ":", "/", "/", "h", ":", "x", "/">>}

\* The values given to --timeout, in seconds.
Timeouts ==
    {-1, 0, 30}

\* -------------------------------------------------------- the SOCKS dialer
\* Addresses are text the code takes apart: sequences of one-character
\* strings.
\* strings.Split(s, c)
RECURSIVE SplitOn(_, _)
SplitOn(s, c) ==
    LET i == IndexByte(s, c)
    IN  IF i = 0 THEN <<s>>
        ELSE <<SubSeq(s, 1, i - 1)>> \o SplitOn(SubSeq(s, i + 1, Len(s)), c)

\* The value of a decimal numeral.
RECURSIVE Atoi(_)
Atoi(s) ==
    IF Len(s) = 0 THEN 0
    ELSE 10 * Atoi(SubSeq(s, 1, Len(s) - 1))
         + (CHOOSE d \in 0..9 : ToString(d) = s[Len(s)])

\* net.SplitHostPort: host, port, and whether it failed.
SplitHostPort(hostport) ==
    LET i    == LastIndexByte(hostport, ":")
        end  == IndexByte(hostport, "]")
        fail == [host |-> <<>>, port |-> <<>>, err |-> TRUE]
    IN  IF i = 0 THEN fail
        ELSE IF hostport[1] = "["
        THEN IF end = 0 \/ end + 1 # i THEN fail
             ELSE IF IndexByte(SubSeq(hostport, 2, Len(hostport)), "[") # 0
                     \/ IndexByte(SubSeq(hostport, end + 1, Len(hostport)), "]") # 0
             THEN fail
             ELSE [host |-> SubSeq(hostport, 2, end - 1),
                   port |-> SubSeq(hostport, i + 1, Len(hostport)), err |-> FALSE]
        ELSE IF IndexByte(SubSeq(hostport, 1, i - 1), ":") # 0
                \/ IndexByte(hostport, "[") # 0 \/ IndexByte(hostport, "]") # 0
        THEN fail
        ELSE [host |-> SubSeq(hostport, 1, i - 1),
              port |-> SubSeq(hostport, i + 1, Len(hostport)), err |-> FALSE]

\* net.JoinHostPort
JoinHostPort(host, port) ==
    IF IndexByte(host, ":") # 0
    THEN <<"[">> \o host \o <<"]", ":">> \o port
    ELSE host \o <<":">> \o port

\* net.ParseIP(host) != nil: a dotted quad, or (of IPv6) the forms written
\* with hexadecimal groups and "::".
ParseIP(host) ==
    LET quad == SplitOn(host, ".")
    IN  \/ /\ Len(quad) = 4
           /\ \A k \in 1..4 :
                /\ Len(quad[k]) \in 1..3
                /\ \A j \in 1..Len(quad[k]) : quad[k][j] \in Digits
                /\ Atoi(quad[k]) <= 255
        \/ /\ Len(host) >= 2
           /\ \A j \in 1..Len(host) : host[j] \in HexDigits \cup {":"}
           /\ Cardinality({j \in 1..Len(host) : host[j] = ":"}) \in 2..7

\* The targets handed to the dialer.
T_IPv4 ==
    <<"1", ".", "2", ".", "3", ".", "4", ":", "8", "0">>
T_IPv6 ==
    <<"[", ":", ":", "1", "]", ":", "8", "0">>
T_Host ==
    <<"h", ".", "i", "o", ":", "8", "0">>
T_NoPort ==
    <<"h", ".", "i", "o">>
DialTargets ==
    {T_IPv4, T_IPv6, T_Host, T_NoPort}

\* What the local resolver may answer: addresses, none, or an error.
IP_A ==
    <<"5", ".", "6", ".", "7", ".", "8">>
IP_B ==
    <<"9", ".", "9", ".", "9", ".", "9">>
IP_6 ==
    <<":", ":", "2">>
LookupAnswers ==
    {[ips |-> <<IP_A, IP_B>>, err |-> "nil"],
     [ips |-> <<IP_B, IP_A>>, err |-> "nil"],
     [ips |-> <<IP_6>>, err |-> "nil"],
     [ips |-> <<>>, err |-> "nil"],
     [ips |-> <<>>, err |-> "no such host"]}

\* The answers of resolver.LookupHost(ctx, host): once ctx is done the
\* lookup may also end with the context's error. net.LookupHost (used by
\* Dial) has no context.
LookupHost(done) ==
    LookupAnswers
        \cup (IF done THEN {[ips |-> <<>>, err |-> "context canceled"]} ELSE {})

\* A SOCKSError whose message says nothing of what it was made for.
SOCKSErrorBare(message, err) ==
    [nil |-> FALSE, Message |-> <<"SOCKS error">>, Err |-> err,
     text |-> IF err = "none" THEN <<"SOCKS error">> ELSE <<"SOCKS error", ": ", err>>]

\* *SOCKSError{Message, Err}, the message given as the pieces it is
\* concatenated from; Error() is the message, followed by the wrapped
\* error's text when there is one.
SOCKSError(message, err) ==
    [nil |-> FALSE, Message |-> message, Err |-> err,
     text |-> IF err = "none" THEN message ELSE message \o <<": ", err>>]

\* resolveLocally / resolveLocallyWithContext up to the lookup: the address
\* to dial when no lookup is needed, or the host to look up.
ResolvePlan(addr) ==
    LET sp == SplitHostPort(addr)
    IN  IF sp.err THEN [lookup |-> FALSE, addr |-> addr, host |-> <<>>, port |-> <<>>]
        ELSE IF ParseIP(sp.host)
        THEN [lookup |-> FALSE, addr |-> addr, host |-> sp.host, port |-> sp.port]
        ELSE [lookup |-> TRUE, addr |-> addr, host |-> sp.host, port |-> sp.port]

\* ResolveResult, taking the last resolved address instead of the first.
ResolveResultLast(host, port, ans) ==
    IF ans.err # "nil"
    THEN [addr |-> <<>>,
          err |-> SOCKSError(<<"Failed to resolve hostname '">> \o host \o <<"' locally">>,
                             ans.err)]
    ELSE IF Len(ans.ips) = 0
    THEN [addr |-> <<>>,
          err |-> SOCKSError(<<"No IP addresses found for hostname '">> \o host \o <<"'">>,
                             "none")]
    ELSE [addr |-> JoinHostPort(ans.ips[Len(ans.ips)], port), err |-> NilErr]

\* resolveLocally / resolveLocallyWithContext after the lookup answered.
ResolveResult(host, port, ans) ==
    IF ans.err # "nil"
    THEN [addr |-> <<>>,
          err |-> SOCKSError(<<"Failed to resolve hostname '">> \o host \o <<"' locally">>,
                             ans.err)]
    ELSE IF Len(ans.ips) = 0
    THEN [addr |-> <<>>,
          err |-> SOCKSError(<<"No IP addresses found for hostname '">> \o host \o <<"'">>,
                             "none")]
    ELSE [addr |-> JoinHostPort(ans.ips[1], port), err |-> NilErr]

\* No dial in progress.
NoDial ==
    [pc |-> "idle", entry |-> "none", remoteDNS |-> FALSE, ctxDialer |-> FALSE,
     addr |-> <<>>, port |-> <<>>, ips |-> <<>>, dialAddr |-> <<>>,
     cancelled |-> FALSE, log |-> <<>>,
     gor |-> "none", resultCh |-> <<>>, opened |-> 0, closed |-> 0,
     cause |-> "none", conn |-> FALSE, err |-> NilErr]

\* No function applied.
NoApp ==
    [fn |-> "none", in |-> <<>>, out |-> <<>>, done |-> FALSE]

\* ------------------------------------------------------------------- state
VARIABLES
    kind,          \* "sse", "streamable" or "sdk": the bridge and its transport
    ctxDone,       \* the run context is cancelled
    runPc,         \* Run: "start", "wait" (the select), "returned"
    runErr,        \* Run's return value, once returned
    runCase,       \* what ended Run: "connect", or the select's case
    connectCalls,  \* calls of b.transport.Connect
    connResp,      \* the exchange the Connect call saw
    remoteHits,    \* HTTP requests that reached the remote peer
    tr,            \* the transport's fields
    closeCalls,    \* calls of b.transport.Close
    eventsCh,      \* the transport's delivery queue (eventsCh)
    sseErrCh,      \* SSEClient.errCh
    errCh,         \* Run's errCh
    stdinNext,     \* what the next read of stdin yields
    stdinCount,    \* lines written to stdin so far
    checked,       \* the lines readStdin read and took past its ctx.Done check
    sent,          \* the Send calls: payload, outcome, error text
    stdout,        \* the lines handed to b.stdout, in order
    pumpPc,        \* readStdin: "idle", "scan", "send", "errwrite", "await",
                   \* "outwrite", "done", "panic"
    pumpCur,       \* the event readStdin took from a Streamable transport
    rdPc,          \* readEvents: "idle", "scan", "emit", "done"
    rd,            \* readEvents' locals: event, dataLines
    wireNext,      \* what the next read of the SSE body yields
    wireCount,     \* lines the peer wrote on the SSE stream so far
    evPc,          \* handleSSEEvents / handleResponses: "idle", "recv",
                   \* "write", "done"
    evCur,         \* the event (or message) being written by it
    readTimeouts,  \* reads of handleResponses that ended on their 30 s deadline
    pIn,           \* the lines given to the parser: in ParserSpec its whole
                   \* input, in a run the lines readEvents has parsed so far
    pPos,          \* ParserSpec: lines parsed so far
    pOut,          \* ParserSpec: events emitted so far
    dial,          \* DialSpec: one call of SOCKSDialer.Dial / DialContext
    app,           \* FuncSpec: one application of a function of the start-up
                   \* path: its name, its input, and its result once applied
    apiCalls       \* TransportSpec: the calls of Connect, Send and Close that
                   \* returned, in order, with what they saw and did

vars ==
    <<kind, ctxDone, runPc, runErr, runCase, connectCalls, connResp, remoteHits, tr,
      closeCalls, eventsCh, sseErrCh, errCh, stdinNext, stdinCount, checked,
      sent, stdout, pumpPc, pumpCur, rdPc, rd, wireNext, wireCount, evPc, evCur,
      readTimeouts,
      pIn, pPos, pOut, dial, apiCalls, app>>

runVars ==
    <<runPc, runErr, runCase, connectCalls, connResp, tr, closeCalls>>
pumpVars ==
    <<checked, sent, pumpPc, pumpCur>>
readerVars ==
    <<rdPc, rd, sseErrCh>>
handlerVars ==
    <<evPc, evCur, readTimeouts>>
stdinVars ==
    <<stdinNext, stdinCount>>
wireVars ==
    <<wireNext, wireCount>>
parserVars ==
    <<pIn, pPos, pOut>>

\* A panic in any goroutine ends the process.
Alive ==
    pumpPc # "panic"

\* The state after NewWithTransport (or New), before Run.
Init ==
    /\ kind \in {"sse", "streamable", "sdk"}
    /\ ctxDone = FALSE
    /\ runPc = "start"
    /\ runErr = NilErr
    /\ runCase = "none"
    /\ connectCalls = 0
    /\ connResp = NoExchange
    /\ remoteHits = 0
    /\ tr = NewTransport
    /\ closeCalls = 0
    /\ eventsCh = <<>>
    /\ sseErrCh = <<>>
    /\ errCh = <<>>
    /\ stdinNext = NoLine
    /\ stdinCount = 0
    /\ checked = <<>>
    /\ sent = <<>>
    /\ stdout = <<>>
    /\ pumpPc = "idle"
    /\ pumpCur = ""
    /\ rdPc = "idle"
    /\ rd = ZeroParser
    /\ wireNext = NoWire
    /\ wireCount = 0
    /\ evPc = "idle"
    /\ evCur = ZeroEvent
    /\ readTimeouts = 0
    /\ pIn = <<>>
    /\ pPos = 0
    /\ pOut = <<>>
    /\ dial = NoDial
    /\ apiCalls = <<>>
    /\ app = NoApp

\* ------------------------------------------------------------- environment
\* What the environment has fed so far.
Load ==
    2 * stdinCount + wireCount + readTimeouts

\* The operator's interrupt (main's signal handler) or a test's deadline.
Cancel ==
    /\ Alive
    /\ ~ctxDone
    /\ ctxDone' = TRUE
    /\ UNCHANGED <<kind, dial, apiCalls, app, runVars, remoteHits, eventsCh, errCh, stdinVars, pumpVars,
                   stdout, readerVars, wireVars, handlerVars, parserVars>>

\* The local client writes a line, closes stdin, or stdin breaks.
StdinFeed ==
    /\ Alive
    /\ stdinNext.t = "none"
    /\ \E item \in {StdinEOF, StdinErr} \cup
                   (IF Load + 2 <= MaxLoad
                    THEN {StdinLine(l) : l \in StdinLines} ELSE {}) :
          /\ stdinNext' = item
          /\ stdinCount' = IF item.t = "line" THEN stdinCount + 1 ELSE stdinCount
    /\ UNCHANGED <<kind, dial, apiCalls, app, ctxDone, runVars, remoteHits, eventsCh, errCh, pumpVars,
                   stdout, readerVars, wireVars, handlerVars, parserVars>>

\* What the peer may send next: a line of the SSE stream, or a message on
\* the SDK's connection (its text as one piece).
PeerLines(k) ==
    IF k = "sse" THEN RunWireLines ELSE {<<ReplyBody(Req1)>>, <<ReplyBody(Req2)>>}

\* The remote peer writes a line on the open SSE stream (a message on the
\* SDK's connection), ends the stream, or the connection breaks.
WireFeed ==
    /\ Alive
    /\ IF kind = "sse" THEN tr.body = "open" ELSE tr.conn = "sdk" /\ ~tr.closed
    /\ wireNext.t = "none"
    /\ \E item \in {WireEOF, WireErr} \cup
                   (IF Load + 1 <= MaxLoad
                    THEN {WireLine(l) : l \in PeerLines(kind)} ELSE {}) :
          /\ wireNext' = item
          /\ wireCount' = IF item.t = "line" THEN wireCount + 1 ELSE wireCount
    /\ UNCHANGED <<kind, dial, apiCalls, app, ctxDone, runVars, remoteHits, eventsCh, errCh, stdinVars,
                   pumpVars, stdout, readerVars, handlerVars, parserVars>>

\* ---------------------------------------------------------------- channels
\* make(chan error, 2) in Run; make(chan error, 1) in NewSSEClient.
RunErrChCap == 2
SSEErrChCap == 1

HasRoomAlways(q) ==
    TRUE

\* A send on the delivery queue (a channel of QueueCap slots) can proceed.
HasRoom(q) ==
    Len(q) < QueueCap

\* select { case ch <- e: default: }
TrySend(ch, cap, e) ==
    IF Len(ch) < cap THEN Append(ch, e) ELSE ch

\* --------------------------------------------------------------------- Run
RunAfterConnectStartsPumps(k, err) ==
    [runPc   |-> IF err.nil THEN "wait" ELSE "returned",
     runErr  |-> IF err.nil THEN NilErr
                 ELSE WrapError(SentinelErr("ErrServerConnection"), err.Message),
     runCase |-> IF err.nil THEN "none" ELSE "connect",
     pumpPc  |-> "scan",
     evPc    |-> IF k = "streamable" THEN "idle" ELSE "recv"]

\* Run after b.transport.Connect returned err: return the wrapped error, or
\* register the deferred Close and start the goroutines.
RunAfterConnect(k, err) ==
    IF ~err.nil
    THEN [runPc |-> "returned",
          runErr |-> WrapError(SentinelErr("ErrServerConnection"), err.Message),
          runCase |-> "connect", pumpPc |-> "idle", evPc |-> "idle"]
    ELSE [runPc |-> "wait", runErr |-> NilErr, runCase |-> "none",
          pumpPc |-> "scan",
          evPc |-> IF k = "streamable" THEN "idle" ELSE "recv"]

\* Run up to its select: Connect, and on success the goroutines.
RunConnect ==
    /\ Alive
    /\ runPc = "start"
    /\ \E x \in ConnectExchanges(kind, ctxDone) :
          LET c == TransportConnect(kind, tr, x)
              r == RunAfterConnect(kind, c.err)
          IN  /\ connectCalls' = connectCalls + 1
              /\ connResp' = x
              /\ remoteHits' = remoteHits + (IF x.via = "resp" THEN 1 ELSE 0)
              /\ tr' = c.t
              /\ rdPc' = IF c.reader THEN "scan" ELSE rdPc
              /\ runPc' = r.runPc
              /\ runErr' = r.runErr
              /\ runCase' = r.runCase
              /\ pumpPc' = r.pumpPc
              /\ evPc' = r.evPc
    /\ UNCHANGED <<kind, dial, apiCalls, app, ctxDone, closeCalls, eventsCh, sseErrCh, errCh, stdinVars,
                   checked, sent, stdout, pumpCur, rd, wireVars, evCur, readTimeouts,
                   parserVars>>

WaitCasesIgnoresCancel(k, done, ech, sech) ==
    (IF Len(ech) > 0
     THEN {[from |-> "errCh", err |-> Head(ech), errCh |-> Tail(ech),
            sseErrCh |-> sech]}
     ELSE {}) \cup
    (IF k = "sse" /\ Len(sech) > 0
     THEN {[from |-> "transport", err |-> PlainErr("connection error"),
            errCh |-> ech, sseErrCh |-> Tail(sech)]}
     ELSE {})

\* The cases of Run's select that are ready, each with the value Run returns
\* and the channels after the receive.
WaitCases(k, done, ech, sech) ==
    (IF done
     THEN {[from |-> "ctx", err |-> NilErr, errCh |-> ech, sseErrCh |-> sech]}
     ELSE {}) \cup
    (IF Len(ech) > 0
     THEN {[from |-> "errCh", err |-> Head(ech), errCh |-> Tail(ech),
            sseErrCh |-> sech]}
     ELSE {}) \cup
    (IF k = "sse" /\ Len(sech) > 0
     THEN {[from |-> "transport", err |-> PlainErr("connection error"),
            errCh |-> ech, sseErrCh |-> Tail(sech)]}
     ELSE {})

DeferredSkipsClose(k, t, calls) ==
    [t |-> t, calls |-> calls]

\* Run's deferred function: b.transport.Close().
Deferred(k, t, calls) ==
    [t |-> TransportClose(k, t), calls |-> calls + 1]

\* Run's select fires and Run returns through its deferred function.
RunWait ==
    /\ Alive
    /\ runPc = "wait"
    /\ \E c \in WaitCases(kind, ctxDone, errCh, sseErrCh) :
          LET d == Deferred(kind, tr, closeCalls)
          IN  /\ runErr' = c.err
              /\ runCase' = c.from
              /\ errCh' = c.errCh
              /\ sseErrCh' = c.sseErrCh
              /\ tr' = d.t
              /\ closeCalls' = d.calls
              /\ runPc' = "returned"
    /\ UNCHANGED <<kind, dial, apiCalls, app, ctxDone, connectCalls, connResp, remoteHits, eventsCh,
                   stdinVars, pumpVars, stdout, rdPc, rd, wireVars, handlerVars,
                   parserVars>>

\* --------------------------------------------------------------- readStdin
ForwardableAnyLine(k, line) ==
    line # ""

\* The line passes readStdin's filters: it is not empty, it is json.Valid and,
\* in the SDK's bridge, jsonrpc.DecodeMessage accepts it.
Forwardable(k, line) ==
    /\ line # ""
    /\ JsonValid(line)
    /\ k = "sdk" => DecodesAsMessage(line)

CallSendTwice(log, line) ==
    Append(Append(log, [data |-> line, res |-> "inflight", err |-> ""]),
           [data |-> line, res |-> "inflight", err |-> ""])

\* b.transport.Send(ctx, line) is called (conn.Write(ctx, msg) with the
\* message decoded from line): the call joins the log.
CallSend(log, line) ==
    Append(log, [data |-> line, res |-> "inflight", err |-> ""])

\* The Send call in flight returned err.
Returned(log, err) ==
    [log EXCEPT ![Len(log)] =
        [@ EXCEPT !.res = IF err.nil THEN "ok" ELSE "fail", !.err = err.Message]]

\* The goroutine around a pump without its `if err != nil`.
ReportPumpAlways(ch, err) ==
    TrySend(ch, RunErrChCap, err)

\* The goroutine around a pump: a non-nil error goes to errCh if there is room.
ReportPump(ch, err) ==
    IF err.nil THEN ch ELSE TrySend(ch, RunErrChCap, err)

\* readStdin without the ctx.Done check at the top of its loop.
StopsOnCancelNever(done) ==
    FALSE

\* select { case <-ctx.Done(): return nil; default: } at the top of
\* readStdin's loop: the pump returns when the context is done.
StopsOnCancel(done) ==
    done

\* readStdin taking the end of stdin for a read error.
ScanEndAlwaysError(next) ==
    PlainErr("stdin reader error")

\* readStdin after its loop: scanner.Err() wrapped, or nil at the end of
\* stdin.
ScanEnd(next) ==
    IF next.t = "err" THEN PlainErr("stdin reader error") ELSE NilErr

\* scanner.Scan returns: the end of stdin, a read error, or a line, which is
\* dropped on cancellation, skipped, or handed to Send.
PumpScan ==
    /\ Alive
    /\ pumpPc = "scan"
    /\ stdinNext.t # "none"
    /\ CASE stdinNext.t \in {"eof", "err"} ->
              /\ pumpPc' = "done"
              /\ errCh' = ReportPump(errCh, ScanEnd(stdinNext))
              /\ UNCHANGED <<stdinNext, checked, sent>>
         [] OTHER ->
              /\ stdinNext' = NoLine
              /\ IF StopsOnCancel(ctxDone)
                 THEN /\ pumpPc' = "done"
                      /\ UNCHANGED <<checked, sent>>
                 ELSE /\ checked' = Append(checked, stdinNext.v)
                      /\ IF Forwardable(kind, stdinNext.v)
                         THEN /\ sent' = CallSend(sent, stdinNext.v)
                              /\ pumpPc' = "send"
                         ELSE /\ pumpPc' = "scan"
                              /\ sent' = sent
              /\ errCh' = errCh
    /\ UNCHANGED <<kind, dial, apiCalls, app, ctxDone, runVars, remoteHits, eventsCh, sseErrCh,
                   stdinCount, stdout, pumpCur, rdPc, rd, wireVars, handlerVars,
                   parserVars>>

\* How a Send that saw exchange x ends: the error it returns, the delivery
\* queue after it, or a panic (a send on the closed eventsCh). A Streamable
\* Send with a valid reply selects between the queue and ctx.Done.
SendResults(k, t, done, q, x) ==
    IF k = "sse"
    THEN {[err |-> SSESend(x), q |-> q, panic |-> FALSE]}
    ELSE IF k = "sdk"
    THEN {[err |-> SDKWrite(x), q |-> q, panic |-> FALSE]}
    ELSE IF ~StreamableSend(x).nil
    THEN {[err |-> StreamableSend(x), q |-> q, panic |-> FALSE]}
    ELSE (IF t.chClosed
          THEN {[err |-> NilErr, q |-> q, panic |-> TRUE]}
          ELSE IF HasRoom(q)
          THEN {[err |-> NilErr, q |-> Append(q, [Data |-> x.body]),
                 panic |-> FALSE]}
          ELSE {}) \cup
         (IF done
          THEN {[err |-> PlainErr("context canceled"), q |-> q, panic |-> FALSE]}
          ELSE {})

\* readStdin without the inline wait for a Streamable transport's reply.
AfterSendNoAwait(k, err) ==
    IF ~err.nil THEN "errwrite" ELSE "scan"

\* Where readStdin goes when Send returned err.
AfterSend(k, err) ==
    IF ~err.nil THEN "errwrite"
    ELSE IF k = "streamable" THEN "await" ELSE "scan"

\* b.transport.Send returns.
PumpSendDone ==
    /\ Alive
    /\ pumpPc = "send"
    /\ \E x \in SendExchanges(kind, ctxDone, sent[Len(sent)].data) :
       \E r \in SendResults(kind, tr, ctxDone, eventsCh, x) :
          /\ remoteHits' = remoteHits + (IF x.via = "resp" THEN 1 ELSE 0)
          /\ eventsCh' = r.q
          /\ IF r.panic
             THEN /\ pumpPc' = "panic"
                  /\ sent' = sent
             ELSE /\ pumpPc' = AfterSend(kind, r.err)
                  /\ sent' = Returned(sent, r.err)
    /\ UNCHANGED <<kind, dial, apiCalls, app, ctxDone, runVars, sseErrCh, errCh, stdinVars, checked,
                   stdout, pumpCur, rdPc, rd, wireVars, handlerVars, parserVars>>

SendErrorResponseTwice(out, request, msg) ==
    Append(Append(out, ErrorResponse(request, msg)), ErrorResponse(request, msg))

\* sendErrorResponse: one line to b.stdout; the write's error is dropped.
SendErrorResponse(out, request, msg) ==
    Append(out, ErrorResponse(request, msg))

\* Where readStdin goes after the Send and its error handling: a Streamable
\* transport's reply is awaited, otherwise the next line is scanned.
AfterErrorResponse(k) ==
    IF k = "streamable" THEN "await" ELSE "scan"

\* sendErrorResponse's write completes.
PumpErrWritten ==
    /\ Alive
    /\ pumpPc = "errwrite"
    /\ stdout' = SendErrorResponse(stdout, sent[Len(sent)].data, sent[Len(sent)].err)
    /\ pumpPc' = AfterErrorResponse(kind)
    /\ UNCHANGED <<kind, dial, apiCalls, app, ctxDone, runVars, remoteHits, eventsCh, sseErrCh, errCh,
                   stdinVars, checked, sent, pumpCur, rdPc, rd, wireVars,
                   handlerVars, parserVars>>

\* readStdin reading the reply off the queue without taking it.
PumpAwaitPeeks ==
    /\ Alive
    /\ pumpPc = "await"
    /\ \/ /\ Len(eventsCh) > 0
          /\ eventsCh' = eventsCh
          /\ IF Head(eventsCh).Data # ""
             THEN pumpPc' = "outwrite" /\ pumpCur' = Head(eventsCh).Data
             ELSE pumpPc' = "scan" /\ pumpCur' = pumpCur
       \/ /\ Len(eventsCh) = 0
          /\ tr.chClosed
          /\ pumpPc' = "scan"
          /\ UNCHANGED <<eventsCh, pumpCur>>
       \/ /\ ctxDone
          /\ pumpPc' = "done"
          /\ UNCHANGED <<eventsCh, pumpCur>>
    /\ UNCHANGED <<kind, dial, apiCalls, app, ctxDone, runVars, remoteHits, sseErrCh, errCh, stdinVars,
                   checked, sent, stdout, rdPc, rd, wireVars, handlerVars,
                   parserVars>>

\* The select after a Streamable Send: an event (the zero event once the queue
\* is closed and drained) or ctx.Done.
PumpAwait ==
    /\ Alive
    /\ pumpPc = "await"
    /\ \/ /\ Len(eventsCh) > 0
          /\ eventsCh' = Tail(eventsCh)
          /\ IF Head(eventsCh).Data # ""
             THEN pumpPc' = "outwrite" /\ pumpCur' = Head(eventsCh).Data
             ELSE pumpPc' = "scan" /\ pumpCur' = pumpCur
       \/ /\ Len(eventsCh) = 0
          /\ tr.chClosed
          /\ pumpPc' = "scan"
          /\ UNCHANGED <<eventsCh, pumpCur>>
       \/ /\ ctxDone
          /\ pumpPc' = "done"
          /\ UNCHANGED <<eventsCh, pumpCur>>
    /\ UNCHANGED <<kind, dial, apiCalls, app, ctxDone, runVars, remoteHits, sseErrCh, errCh, stdinVars,
                   checked, sent, stdout, rdPc, rd, wireVars, handlerVars,
                   parserVars>>

\* readStdin's write of a Streamable reply completes, well or not.
PumpOutWritten ==
    /\ Alive
    /\ pumpPc = "outwrite"
    /\ stdout' = Append(stdout, DataLine(pumpCur))
    /\ pumpCur' = ""
    /\ \E ok \in BOOLEAN :
          IF ok
          THEN pumpPc' = "scan" /\ errCh' = errCh
          ELSE /\ pumpPc' = "done"
               /\ errCh' = ReportPump(errCh, PlainErr("stdin reader error"))
    /\ UNCHANGED <<kind, dial, apiCalls, app, ctxDone, runVars, remoteHits, eventsCh, sseErrCh,
                   stdinVars, checked, sent, rdPc, rd, wireVars, handlerVars,
                   parserVars>>

\* -------------------------------------------------------------- readEvents
\* readEvents handing its read error to Run in person: the hand-off waits
\* for Run to be in its select.
RdScanRendezvous ==
    /\ Alive
    /\ rdPc = "scan"
    /\ \/ /\ tr.body = "closed" \/ wireNext.t = "err"
          /\ runPc = "wait"
          /\ sseErrCh' = TrySend(sseErrCh, SSEErrChCap, PlainErr("read error"))
          /\ rdPc' = "done"
          /\ UNCHANGED <<rd, eventsCh, wireNext, pIn>>
       \/ /\ wireNext.t = "eof"
          /\ rdPc' = "done"
          /\ UNCHANGED <<rd, eventsCh, wireNext, sseErrCh, pIn>>
       \/ /\ wireNext.t = "line"
          /\ wireNext' = NoWire
          /\ sseErrCh' = sseErrCh
          /\ IF ctxDone
             THEN rdPc' = "done" /\ UNCHANGED <<rd, eventsCh, pIn>>
             ELSE LET r == ParseLine(rd, wireNext.v)
                  IN  /\ pIn' = Append(pIn, wireNext.v)
                      /\ IF r.emit = <<>>
                         THEN rd' = r.st /\ rdPc' = "scan" /\ eventsCh' = eventsCh
                         ELSE IF HasRoom(eventsCh)
                         THEN /\ eventsCh' = Append(eventsCh, r.emit[1])
                              /\ rd' = r.st
                              /\ rdPc' = "scan"
                         ELSE /\ rd' = [rd EXCEPT !.event = r.emit[1]]
                              /\ rdPc' = "emit"
                              /\ eventsCh' = eventsCh
    /\ UNCHANGED <<kind, dial, apiCalls, app, ctxDone, runVars, remoteHits, errCh, stdinVars, pumpVars,
                   stdout, wireCount, handlerVars, pPos, pOut>>

\* scanner.Scan on the response body returns: a read error (also what a read
\* of a closed body gives), the end of the stream, or a line, which is dropped
\* on cancellation or parsed; an event is handed to the delivery queue, and
\* readEvents blocks in its select when the queue is full.
RdScan ==
    /\ Alive
    /\ rdPc = "scan"
    /\ \/ /\ tr.body = "closed" \/ wireNext.t = "err"
          /\ sseErrCh' = TrySend(sseErrCh, SSEErrChCap, PlainErr("read error"))
          /\ rdPc' = "done"
          /\ UNCHANGED <<rd, eventsCh, wireNext, pIn>>
       \/ /\ wireNext.t = "eof"
          /\ rdPc' = "done"
          /\ UNCHANGED <<rd, eventsCh, wireNext, sseErrCh, pIn>>
       \/ /\ wireNext.t = "line"
          /\ wireNext' = NoWire
          /\ sseErrCh' = sseErrCh
          /\ IF ctxDone
             THEN rdPc' = "done" /\ UNCHANGED <<rd, eventsCh, pIn>>
             ELSE LET r == ParseLine(rd, wireNext.v)
                  IN  /\ pIn' = Append(pIn, wireNext.v)
                      /\ IF r.emit = <<>>
                         THEN rd' = r.st /\ rdPc' = "scan" /\ eventsCh' = eventsCh
                         ELSE IF HasRoom(eventsCh)
                         THEN /\ eventsCh' = Append(eventsCh, r.emit[1])
                              /\ rd' = r.st
                              /\ rdPc' = "scan"
                         ELSE /\ rd' = [rd EXCEPT !.event = r.emit[1]]
                              /\ rdPc' = "emit"
                              /\ eventsCh' = eventsCh
    /\ UNCHANGED <<kind, dial, apiCalls, app, ctxDone, runVars, remoteHits, errCh, stdinVars, pumpVars,
                   stdout, wireCount, handlerVars, pPos, pOut>>

\* The select of a blocked hand-off: room in the queue, or ctx.Done.
RdEmit ==
    /\ Alive
    /\ rdPc = "emit"
    /\ \/ /\ HasRoom(eventsCh)
          /\ eventsCh' = Append(eventsCh, rd.event)
          /\ rd' = ZeroParser
          /\ rdPc' = "scan"
       \/ /\ ctxDone
          /\ rdPc' = "done"
          /\ UNCHANGED <<rd, eventsCh>>
    /\ UNCHANGED <<kind, dial, apiCalls, app, ctxDone, runVars, remoteHits, sseErrCh, errCh, stdinVars,
                   pumpVars, stdout, wireVars, handlerVars, parserVars>>

\* --------------------------------------------------------- handleSSEEvents
\* The select of handleSSEEvents: ctx.Done, or an event, skipped when its data
\* is empty.
EvRecv ==
    /\ Alive
    /\ kind = "sse"
    /\ evPc = "recv"
    /\ \/ /\ ctxDone
          /\ evPc' = "done"
          /\ UNCHANGED <<eventsCh, evCur>>
       \/ /\ Len(eventsCh) > 0
          /\ eventsCh' = Tail(eventsCh)
          /\ IF Head(eventsCh).Data = <<>>
             THEN UNCHANGED <<evPc, evCur>>
             ELSE evPc' = "write" /\ evCur' = Head(eventsCh)
    /\ UNCHANGED <<readTimeouts, kind, dial, apiCalls, app, ctxDone, runVars, remoteHits, errCh, stdinVars, pumpVars,
                   stdout, readerVars, wireVars, parserVars>>

WriteEventFirst(out, event) ==
    <<DataLine(event.Data)>> \o out

\* fmt.Fprintln(b.stdout, event.Data): the event's data is the next line.
WriteEvent(out, event) ==
    Append(out, DataLine(event.Data))

\* The write to b.stdout of handleSSEEvents (of handleResponses) completes,
\* well or not.
EvWritten ==
    /\ Alive
    /\ evPc = "write"
    /\ stdout' = WriteEvent(stdout, evCur)
    /\ evCur' = ZeroEvent
    /\ \E ok \in BOOLEAN :
          IF ok
          THEN evPc' = "recv" /\ errCh' = errCh
          ELSE /\ evPc' = "done"
               /\ errCh' = ReportPump(errCh, PlainErr("failed to write to stdout"))
    /\ UNCHANGED <<readTimeouts, kind, dial, apiCalls, app, ctxDone, runVars, remoteHits, eventsCh, stdinVars,
                   pumpVars, readerVars, wireVars, parserVars>>

\* --------------------------------------------------------- handleResponses
\* How a turn of handleResponses' loop can go: the context is done (at the
\* loop's check, or as the reason conn.Read failed); conn.Read returns a
\* message, io.EOF or another error (a closed connection fails the read); or,
\* nothing arriving, the read ends on its 30 s deadline.
ReadOutcomes(done, next, closed, budget) ==
    (IF done THEN {"ctx"} ELSE {}) \cup
    (IF next.t = "line" THEN {"msg"} ELSE {}) \cup
    (IF next.t = "eof" THEN {"eof"} ELSE {}) \cup
    (IF next.t = "err" \/ closed THEN {"err"} ELSE {}) \cup
    (IF next.t = "none" /\ ~done /\ ~closed /\ budget THEN {"timeout"} ELSE {})

AfterReadTimeoutFatal(done, what) ==
    IF what = "msg" THEN [pc |-> "write", report |-> FALSE]
    ELSE IF done \/ what = "ctx" THEN [pc |-> "done", report |-> FALSE]
    ELSE IF what = "eof" THEN [pc |-> "done", report |-> FALSE]
    ELSE [pc |-> "done", report |-> TRUE]

\* handleResponses after conn.Read: on to the write; or return nil (context
\* done, io.EOF), continue (deadline exceeded), or return the error.
AfterRead(done, what) ==
    IF what = "msg" THEN [pc |-> "write", report |-> FALSE]
    ELSE IF done \/ what = "ctx" THEN [pc |-> "done", report |-> FALSE]
    ELSE IF what = "eof" THEN [pc |-> "done", report |-> FALSE]
    ELSE IF what = "timeout" THEN [pc |-> "recv", report |-> FALSE]
    ELSE [pc |-> "done", report |-> TRUE]

\* One turn of handleResponses' loop up to its write.
HrRead ==
    /\ Alive
    /\ kind = "sdk"
    /\ evPc = "recv"
    /\ \E what \in ReadOutcomes(ctxDone, wireNext, tr.closed, Load + 1 <= MaxLoad) :
          LET r == AfterRead(ctxDone, what)
          IN  /\ evPc' = r.pc
              /\ errCh' = IF r.report
                          THEN ReportPump(errCh, PlainErr("response handler error"))
                          ELSE errCh
              /\ evCur' = IF what = "msg"
                          THEN [ZeroEvent EXCEPT !.Data = wireNext.v]
                          ELSE evCur
              /\ wireNext' = IF what = "msg" THEN NoWire ELSE wireNext
              /\ readTimeouts' = readTimeouts + (IF what = "timeout" THEN 1 ELSE 0)
    /\ UNCHANGED <<kind, dial, apiCalls, app, ctxDone, runVars, remoteHits, eventsCh, stdinVars,
                   pumpVars, stdout, readerVars, wireCount, parserVars>>

\* ----------------------------------------------------------- specifications
Run ==
    RunConnect \/ RunWait

ReadStdin ==
    PumpScan \/ PumpSendDone \/ PumpErrWritten \/ PumpAwait \/ PumpOutWritten

ReadEvents ==
    RdScan \/ RdEmit

HandleSSEEvents ==
    EvRecv \/ HrRead \/ EvWritten

Environment ==
    Cancel \/ StdinFeed \/ WireFeed

Next ==
    Run \/ ReadStdin \/ ReadEvents \/ HandleSSEEvents \/ Environment

Spec ==
    Init /\ [][Next]_vars

\* Every goroutine that can take a step eventually takes one.
FairSpec ==
    /\ Spec
    /\ WF_vars(Run)
    /\ WF_vars(ReadStdin)
    /\ WF_vars(ReadEvents)
    /\ WF_vars(HandleSSEEvents)

\* ----------------------------------------------------------------- parser
\* All inputs of up to MaxParse lines.
ParserInputs ==
    UNION {[1..n -> WireLines] : n \in 0..MaxParse}

ParserInit ==
    /\ pIn \in ParserInputs
    /\ pPos = 0
    /\ pOut = <<>>
    /\ rd = ZeroParser
    /\ kind = "sse"
    /\ ctxDone = FALSE
    /\ runPc = "start"
    /\ runErr = NilErr
    /\ runCase = "none"
    /\ connectCalls = 0
    /\ connResp = NoExchange
    /\ remoteHits = 0
    /\ tr = NewTransport
    /\ closeCalls = 0
    /\ eventsCh = <<>>
    /\ sseErrCh = <<>>
    /\ errCh = <<>>
    /\ stdinNext = NoLine
    /\ stdinCount = 0
    /\ checked = <<>>
    /\ sent = <<>>
    /\ stdout = <<>>
    /\ pumpPc = "idle"
    /\ pumpCur = ""
    /\ rdPc = "idle"
    /\ wireNext = NoWire
    /\ wireCount = 0
    /\ evPc = "idle"
    /\ evCur = ZeroEvent
    /\ readTimeouts = 0
    /\ dial = NoDial
    /\ apiCalls = <<>>
    /\ app = NoApp

\* The parser takes the next line of its input.
ParseStep ==
    /\ pPos < Len(pIn)
    /\ LET r == ParseLine(rd, pIn[pPos + 1])
       IN  /\ rd' = r.st
           /\ pOut' = pOut \o r.emit
    /\ pPos' = pPos + 1
    /\ UNCHANGED <<kind, dial, apiCalls, app, ctxDone, runVars, remoteHits, eventsCh, sseErrCh, errCh,
                   stdinVars, pumpVars, stdout, rdPc, wireVars, handlerVars, pIn>>

ParserSpec ==
    ParserInit /\ [][ParseStep]_vars


\* ----------------------------------------------------------------- dialer
\* Everything but the dialer.
bridgeVars ==
    <<kind, ctxDone, runVars, remoteHits, eventsCh, errCh, stdinVars, pumpVars,
      stdout, readerVars, wireVars, handlerVars, parserVars, apiCalls, app>>

\* A bridge that has not run.
AtRest ==
    /\ ctxDone = FALSE
    /\ runPc = "start"
    /\ runErr = NilErr
    /\ runCase = "none"
    /\ connectCalls = 0
    /\ connResp = NoExchange
    /\ remoteHits = 0
    /\ tr = NewTransport
    /\ closeCalls = 0
    /\ eventsCh = <<>>
    /\ sseErrCh = <<>>
    /\ errCh = <<>>
    /\ stdinNext = NoLine
    /\ stdinCount = 0
    /\ checked = <<>>
    /\ sent = <<>>
    /\ stdout = <<>>
    /\ pumpPc = "idle"
    /\ pumpCur = ""
    /\ rdPc = "idle"
    /\ rd = ZeroParser
    /\ wireNext = NoWire
    /\ wireCount = 0
    /\ evPc = "idle"
    /\ evCur = ZeroEvent
    /\ readTimeouts = 0
    /\ pIn = <<>>
    /\ pPos = 0
    /\ pOut = <<>>
    /\ apiCalls = <<>>

\* A dialer after NewSOCKSDialer: remoteDNS as given (the first generation
\* of the dialer has no local resolution: remoteDNS = TRUE), and whether the
\* proxy package's dialer also is a proxy.ContextDialer.
DialInit ==
    /\ AtRest
    /\ kind = "sse"
    /\ app = NoApp
    /\ dial \in {[NoDial EXCEPT !.remoteDNS = r, !.ctxDialer = c] : r, c \in BOOLEAN}

\* ctx.Err()
CtxErr ==
    [nil |-> FALSE, Message |-> "context canceled", Err |-> "context canceled",
     text |-> <<"context canceled">>]

\* The rest of Dial / DialContext once dialAddr is known: Dial calls
\* d.dialer.Dial, DialContext calls ctxDialer.DialContext, or starts the
\* fallback goroutine and waits in its select.
ProxyStage(d, dialAddr) ==
    IF d.entry = "Dial" \/ d.ctxDialer
    THEN [d EXCEPT !.pc = "dialing", !.dialAddr = dialAddr,
                   !.log = Append(@, <<"proxy", dialAddr>>)]
    ELSE [d EXCEPT !.pc = "fallback", !.dialAddr = dialAddr, !.gor = "running"]

\* Dial(network, addr) / DialContext(ctx, network, addr) up to the first
\* blocking call.
DialCall ==
    /\ dial.pc = "idle"
    /\ \E entry \in {"Dial", "DialContext"}, addr \in DialTargets :
         LET d    == [dial EXCEPT !.entry = entry, !.addr = addr]
             plan == ResolvePlan(addr)
         IN  dial' = IF d.remoteDNS THEN ProxyStage(d, addr)
                     ELSE IF plan.lookup
                     THEN [d EXCEPT !.pc = "resolving", !.port = plan.port,
                                    !.log = Append(@, <<"lookup", plan.host>>)]
                     ELSE ProxyStage(d, plan.addr)
    /\ UNCHANGED bridgeVars

\* The resolver answers.
DialLookupDone ==
    /\ dial.pc = "resolving"
    /\ \E ans \in LookupHost(dial.entry = "DialContext" /\ dial.cancelled) :
         LET r == ResolveResult(SplitHostPort(dial.addr).host, dial.port, ans)
             d == [dial EXCEPT !.ips = ans.ips]
         IN  dial' = IF r.err.nil THEN ProxyStage(d, r.addr)
                     ELSE [d EXCEPT !.pc = "returned", !.err = r.err,
                                       !.cause = IF ans.err = "context canceled"
                                                 THEN "ctx" ELSE "resolve"]
    /\ UNCHANGED bridgeVars

\* d.dialer.Dial or ctxDialer.DialContext returns: a connection, an error,
\* or (with a context that is done) the context's error.
DialProxyDone ==
    /\ dial.pc = "dialing"
    /\ \/ dial' = [dial EXCEPT !.pc = "returned", !.conn = TRUE, !.opened = @ + 1]
       \/ dial' = [dial EXCEPT !.pc = "returned", !.cause = "dial",
                               !.err = PlainErr("socks connect failed")]
       \/ /\ dial.entry = "DialContext" /\ dial.cancelled
          /\ dial' = [dial EXCEPT !.pc = "returned", !.cause = "ctx", !.err = CtxErr]
    /\ UNCHANGED bridgeVars

\* The fallback goroutine: conn, err := d.dialer.Dial(...); resultCh <- ...
\* (resultCh has room for the one result).
DialGoroutine ==
    /\ dial.gor = "running"
    /\ \E ok \in BOOLEAN :
         dial' = [dial EXCEPT
                    !.gor = "done",
                    !.log = Append(@, <<"proxy", dial.dialAddr>>),
                    !.opened = IF ok THEN @ + 1 ELSE @,
                    !.resultCh = <<[conn |-> ok,
                                    err |-> IF ok THEN NilErr
                                            ELSE PlainErr("socks connect failed")]>>]
    /\ UNCHANGED bridgeVars

\* The fallback's select { case <-ctx.Done(): ... case result := <-resultCh }.
DialSelect ==
    /\ dial.pc = "fallback"
    /\ \/ /\ dial.cancelled
          /\ dial' = [dial EXCEPT !.pc = "returned", !.cause = "ctx", !.err = CtxErr]
       \/ /\ dial.resultCh # <<>>
          /\ dial' = [dial EXCEPT !.pc = "returned", !.resultCh = <<>>,
                                  !.conn = dial.resultCh[1].conn,
                                  !.err = dial.resultCh[1].err,
                                  !.cause = IF dial.resultCh[1].conn THEN "none"
                                            ELSE "dial"]
    /\ UNCHANGED bridgeVars

\* The caller's context is cancelled (http.Client.Timeout, or the run's end).
DialCancel ==
    /\ dial.entry # "Dial"
    /\ ~dial.cancelled
    /\ dial' = [dial EXCEPT !.cancelled = TRUE]
    /\ UNCHANGED bridgeVars

DialNext ==
    DialCall \/ DialLookupDone \/ DialProxyDone \/ DialGoroutine \/ DialSelect
        \/ DialCancel

DialSpec ==
    DialInit /\ [][DialNext]_vars


\* ---------------------------------------------------------- transport API
\* The transports on their own: a caller (the bridge, a test) calls Connect,
\* Send and Close in any order and from any goroutine, cancels the context,
\* and receives from Events(). Each method call is one step; Close and the
\* assignment of conn run under c.mu. A Send blocked on a full queue has not
\* returned and takes its step when it can.
\* Calls made on one transport.
MaxCalls == 3

\* What the transport's methods leave alone.
apiRest ==
    <<kind, runPc, runErr, runCase, stdinVars, checked, sent, pumpCur, stdout,
      errCh, rd, sseErrCh, wireVars, handlerVars, parserVars, dial, app>>

TransportInit ==
    /\ AtRest
    /\ kind \in {"sse", "streamable"}
    /\ dial = NoDial
    /\ app = NoApp

\* The record of a call that returned: the exchange it saw, what it
\* returned, whether it panicked, whether it started the reader, the context,
\* the transport's closed flag and the reader's position when it was made,
\* and the delivery queue before and after.
ApiCall(op, x, err, panic, reader, qAfter) ==
    [op |-> op, x |-> x, err |-> err, panic |-> panic, reader |-> reader,
     done |-> ctxDone, closed |-> tr.closed, rdAt |-> rdPc,
     qBefore |-> eventsCh, qAfter |-> qAfter]

\* c.Connect(ctx)
ApiConnect ==
    /\ Alive
    /\ Len(apiCalls) < MaxCalls
    /\ \E x \in ConnectExchanges(kind, ctxDone) :
          LET c == TransportConnect(kind, tr, x)
          IN  /\ connectCalls' = connectCalls + 1
              /\ connResp' = x
              /\ remoteHits' = remoteHits + (IF x.via = "resp" THEN 1 ELSE 0)
              /\ tr' = c.t
              /\ rdPc' = IF c.reader THEN "scan" ELSE rdPc
              /\ apiCalls' = Append(apiCalls,
                                    ApiCall("Connect", x, c.err, FALSE, c.reader, eventsCh))
    /\ UNCHANGED <<ctxDone, closeCalls, eventsCh, pumpPc, apiRest>>

\* c.Send(ctx, data)
ApiSend ==
    /\ Alive
    /\ Len(apiCalls) < MaxCalls
    /\ \E x \in SendExchanges(kind, ctxDone, Req1) :
       \E r \in SendResults(kind, tr, ctxDone, eventsCh, x) :
          /\ remoteHits' = remoteHits + (IF x.via = "resp" THEN 1 ELSE 0)
          /\ eventsCh' = r.q
          /\ pumpPc' = IF r.panic THEN "panic" ELSE pumpPc
          /\ apiCalls' = Append(apiCalls,
                                ApiCall("Send", x, r.err, r.panic, FALSE, r.q))
    /\ UNCHANGED <<ctxDone, connectCalls, connResp, tr, closeCalls, rdPc, apiRest>>

\* c.Close()
ApiClose ==
    /\ Alive
    /\ Len(apiCalls) < MaxCalls
    /\ \E connErr \in {NilErr, PlainErr("close failed")} :
          apiCalls' = Append(apiCalls,
                             ApiCall("Close", NoExchange, CloseReturns(kind, tr, connErr),
                                     FALSE, FALSE, eventsCh))
    /\ tr' = TransportClose(kind, tr)
    /\ closeCalls' = closeCalls + 1
    /\ UNCHANGED <<ctxDone, connectCalls, connResp, remoteHits, eventsCh, rdPc,
                   pumpPc, apiRest>>

\* The caller's context is cancelled.
ApiCancel ==
    /\ Alive
    /\ ~ctxDone
    /\ ctxDone' = TRUE
    /\ UNCHANGED <<connectCalls, connResp, remoteHits, tr, closeCalls, eventsCh,
                   rdPc, pumpPc, apiCalls, apiRest>>

\* The caller receives from Events().
ApiRecv ==
    /\ Alive
    /\ ~tr.chClosed
    /\ eventsCh # <<>>
    /\ eventsCh' = Tail(eventsCh)
    /\ UNCHANGED <<ctxDone, connectCalls, connResp, remoteHits, tr, closeCalls,
                   rdPc, pumpPc, apiCalls, apiRest>>

TransportNext ==
    ApiConnect \/ ApiSend \/ ApiClose \/ ApiCancel \/ ApiRecv

TransportSpec ==
    TransportInit /\ [][TransportNext]_vars

\* ------------------------------------------------- the background reader
\* A Streaming transport on its own: the caller connects, receives from
\* Events() or not, cancels or not, and closes, while the peer writes the
\* stream and the goroutine started by Connect runs readEvents.
ReaderInit ==
    TransportInit /\ kind = "sse"

\* The one Connect call of the transport's life.
ReaderConnect ==
    connectCalls = 0 /\ ApiConnect

ReaderNext ==
    ReaderConnect \/ ApiClose \/ ApiCancel \/ ApiRecv \/ WireFeed \/ ReadEvents

\* The goroutine running readEvents is scheduled whenever it can take a
\* step; the caller and the peer are under no obligation.
ReaderSpec ==
    ReaderInit /\ [][ReaderNext]_vars /\ WF_vars(ReadEvents)

\* The same transport with a caller that sends and does not receive: Send
\* from any goroutine, at any moment of the reader's life, the delivery queue
\* filling up behind it.
SendNext ==
    ReaderConnect \/ ApiSend \/ ApiClose \/ ApiCancel \/ WireFeed \/ ReadEvents

SendSpec ==
    ReaderInit /\ [][SendNext]_vars


\* -------------------------------------------------------------- functions
\* The functions of the start-up path, each applied once to an input drawn
\* at the start.
\* How many times an error is wrapped with WrapError.
MaxWraps == 2

\* The strings given to ParseTransportType: sse, SSE, Sse, streamable,
\* Streamable, http, HTTP, auto, the empty string, unknown, https and "sse ".
TypeStrings ==
    {<<"s", "s", "e">>,
     <<"S", "S", "E">>,
     <<"S", "s", "e">>,
     <<"s", "t", "r", "e", "a", "m", "a", "b", "l", "e">>,
     <<"S", "t", "r", "e", "a", "m", "a", "b", "l", "e">>,
     <<"h", "t", "t", "p">>,
     <<"H", "T", "T", "P">>,
     <<"a", "u", "t", "o">>,
     <<>>,
     <<"u", "n", "k", "n", "o", "w", "n">>,
     <<"h", "t", "t", "p", "s">>,
     <<"s", "s", "e", " ">>}

\* The configurations given to Validate.
Configs ==
    [ProxyAddr : ProxyAddrs, ServerURL : ServerURLs, Timeout : Timeouts]

\* How an error value is made: the error at the end of its chain (nil, a
\* sentinel, errors.New("some other error"), or an errors.New with the text
\* of ErrProxyConnection) and how many times WrapError was applied to it.
ErrorRecipes ==
    [leaf : Sentinels \cup {"nil", "other", "lookalike"}, wraps : 0..MaxWraps]

RECURSIVE BuildError(_, _)
BuildError(leaf, wraps) ==
    IF wraps > 0 THEN WrapError(BuildError(leaf, wraps - 1), "test")
    ELSE IF leaf = "nil" THEN NilErr
    ELSE IF leaf = "other" THEN PlainErr("some other error")
    ELSE IF leaf = "lookalike" THEN PlainErr(SentinelText("ErrProxyConnection"))
    ELSE SentinelErr(leaf)

\* The requests whose Send failed, with the error's text.
FailedRequests ==
    [request : {"7", Req1, Req2, ReqNote, ReqStr, ReqNull, ReqBig},
     msg : {"failed to send request", "server returned status"}]

\* What applying a function leaves alone.
funcRest ==
    <<kind, ctxDone, runVars, remoteHits, eventsCh, errCh, stdinVars, pumpVars,
      stdout, readerVars, wireVars, handlerVars, parserVars, apiCalls, dial>>

FuncInit ==
    /\ AtRest
    /\ kind = "sse"
    /\ dial = NoDial
    /\ app \in {[NoApp EXCEPT !.fn = "ParseTransportType", !.in = i] : i \in TypeStrings}
           \cup {[NoApp EXCEPT !.fn = "DetectTransportType", !.in = i] : i \in DetectExchanges}
           \cup {[NoApp EXCEPT !.fn = "Validate", !.in = i] : i \in Configs}
           \cup {[NoApp EXCEPT !.fn = "errors", !.in = i] : i \in ErrorRecipes}
           \cup {[NoApp EXCEPT !.fn = "sendErrorResponse", !.in = i] : i \in FailedRequests}

\* ParseTransportType(s)
ApplyParseTransportType ==
    /\ app.fn = "ParseTransportType" /\ ~app.done
    /\ app' = [app EXCEPT !.done = TRUE, !.out = ParseTransportType(app.in)]
    /\ UNCHANGED funcRest

\* DetectTransportType(ctx, serverURL, httpClient), then CreateTransport with
\* the type it returned.
ApplyDetect ==
    /\ app.fn = "DetectTransportType" /\ ~app.done
    /\ LET d == DetectTransportType(app.in)
       IN  app' = [app EXCEPT !.done = TRUE,
                              !.out = [type |-> d.type, err |-> d.err, gets |-> d.gets,
                                       transport |-> CreateTransport(d.type)]]
    /\ UNCHANGED funcRest

\* cfg.Validate()
ApplyValidate ==
    /\ app.fn = "Validate" /\ ~app.done
    /\ app' = [app EXCEPT !.done = TRUE, !.out = Validate(app.in)]
    /\ UNCHANGED funcRest

\* The error made by the recipe, and what the predicates and
\* FormatUserFriendlyError say of it.
ApplyErrors ==
    /\ app.fn = "errors" /\ ~app.done
    /\ LET e == BuildError(app.in.leaf, app.in.wraps)
       IN  app' = [app EXCEPT !.done = TRUE,
                              !.out = [err |-> e,
                                       isProxy |-> IsProxyError(e),
                                       isServer |-> IsServerError(e),
                                       isTimeout |-> IsTimeoutError(e),
                                       friendly |-> FormatUserFriendlyError(e)]]
    /\ UNCHANGED funcRest

\* b.sendErrorResponse(request, err): the line it writes.
ApplySendErrorResponse ==
    /\ app.fn = "sendErrorResponse" /\ ~app.done
    /\ app' = [app EXCEPT !.done = TRUE,
                          !.out = SendErrorResponse(<<>>, app.in.request, app.in.msg)]
    /\ UNCHANGED funcRest

FuncNext ==
    \/ ApplyParseTransportType
    \/ ApplyDetect
    \/ ApplyValidate
    \/ ApplyErrors
    \/ ApplySendErrorResponse

FuncSpec ==
    FuncInit /\ [][FuncNext]_vars


\* ================================================================== claims
\* ------------------------------------------------------------------- C1
\* The payloads of the Send (Write) calls made so far, in call order.
SentPayloads ==
    [i \in 1..Len(sent) |-> sent[i].data]

IsValidJSONLine(l) ==
    l # "" /\ JsonValid(l)

IsAcceptedLine(l) ==
    l # "" /\ JsonValid(l) /\ (kind = "sdk" => DecodesAsMessage(l))

IsFailedSend(e) ==
    e.res = "fail"

IsErrorReply(o) ==
    o.kind = "error"

\* The failed sends whose handling is over: all of them, but the one whose
\* error reply is being written.
HandledFailures ==
    Len(SelectSeq(sent, IsFailedSend)) - (IF pumpPc = "errwrite" THEN 1 ELSE 0)

C2_OneReplyPerFailure ==
    LET failed  == SelectSeq(sent, IsFailedSend)
        replies == SelectSeq(stdout, IsErrorReply)
    IN  /\ Len(replies) = HandledFailures
        /\ \A i \in 1..Len(replies) :
              /\ replies[i].jsonrpc = "2.0"
              /\ replies[i].id = ExtractID(failed[i].data)
              /\ replies[i].code = -32000
              /\ replies[i].message = failed[i].err

C2_FailureDoesNotEndRun ==
    /\ Len(SelectSeq(sent', IsFailedSend)) > Len(SelectSeq(sent, IsFailedSend))
          => pumpPc' = "errwrite" /\ runPc' = runPc /\ errCh' = errCh
    /\ pumpPc = "errwrite" /\ pumpPc' # "errwrite"
          => pumpPc' \in {"scan", "await"} /\ runPc' = runPc /\ errCh' = errCh

(* C2: for every send call that fails, exactly one synthetic JSON-RPC error *)
(* reply (the request's id, code -32000, the error's text) is written to    *)
(* the local output stream for that message, and neither the failure nor    *)
(* the reply ends the pump or the run; a send that succeeds causes no       *)
(* synthetic error reply.                                                    *)
C2_FailedSendGetsOneErrorReply ==
    []C2_OneReplyPerFailure /\ [][C2_FailureDoesNotEndRun]_vars

\* A send failed on a non-2xx status and a send succeeded: one error reply.
C2_OneFailedOneSucceeded ==
    /\ Len(sent) = 2
    /\ sent[1].res = "fail"
    /\ sent[1].err = "server returned status"
    /\ sent[2].res = "ok"
    /\ runPc = "wait"
    /\ Len(SelectSeq(stdout, IsErrorReply)) = 1

\* ------------------------------------------------------------------- C3
(* C3: after a send failure, for either transport, the inbound pump goes on *)
(* to the next line without a cancellation: once the failure is being       *)
(* answered, the pump is eventually back at its scan (or the run was        *)
(* cancelled meanwhile). With a StreamableHTTPClient the pump instead waits *)
(* for a reply event that the failed Send never queued.                     *)
C3_PumpContinuesAfterFailure ==
    (pumpPc = "errwrite" /\ ~ctxDone) ~> (pumpPc = "scan" \/ ctxDone)

\* ------------------------------------------------------------------- C4
IsSkippedLine(l) ==
    l = "" \/ ~JsonValid(l)

C4_SkipStep ==
    /\ stdinNext.t = "line"
    /\ stdinNext'.t = "none"
    /\ IsSkippedLine(stdinNext.v)
    /\ ~ctxDone
    => /\ sent' = sent
       /\ stdout' = stdout
       /\ errCh' = errCh
       /\ pumpPc' = "scan"

(* C4: for every blank line and every line that is not valid JSON, read     *)
(* while the run is not cancelled, the inbound pump calls no send, writes   *)
(* nothing to the local output stream, reports no error, and is back at its *)
(* scan for the next line.                                                   *)
C4_BlankAndMalformedLinesSkipped ==
    [][C4_SkipStep]_vars

\* A blank and a malformed line were read; the pump awaits the next line.
C4_BlankAndMalformedRead ==
    /\ checked = <<"", "{bad">>
    /\ pumpPc = "scan"
    /\ sent = <<>>
    /\ stdout = <<>>

\* ------------------------------------------------------------------- C5
(* C5: in every run whose connect succeeded the transport's Close is called *)
(* exactly once, by Run's return, whichever case of the wait fired and      *)
(* whatever else was ready then; it is not called before Run returns, nor   *)
(* in a run whose connect failed.                                           *)
C5_CloseExactlyOnce ==
    /\ closeCalls <= 1
    /\ runPc = "returned" /\ runCase # "connect" => closeCalls = 1 /\ tr.closed
    /\ runPc # "returned" \/ runCase = "connect" => closeCalls = 0 /\ ~tr.closed

\* Run returned on a pump's error while the context was cancelled and the
\* transport had reported a connection error too.
C5_ClosedOnceWhenAllFired ==
    /\ kind = "sse"
    /\ runPc = "returned"
    /\ runCase = "errCh"
    /\ ctxDone
    /\ Len(sseErrCh) > 0
    /\ closeCalls = 1

\* ------------------------------------------------------------------- C6
(* C6: if the context is cancelled while Run waits (connect succeeded),     *)
(* Run eventually returns having run its teardown, whatever the pumps do.   *)
C6_CancelledRunReturns ==
    (ctxDone /\ runPc = "wait") ~> (runPc = "returned" /\ closeCalls = 1)

\* Run returned on cancellation while a Send was in flight.
C6_ReturnedWithSendInFlight ==
    /\ runPc = "returned"
    /\ runCase = "ctx"
    /\ closeCalls = 1
    /\ pumpPc = "send"

\* ------------------------------------------------------------------- C7
(* C7: Run calls Connect exactly once. If the call fails, Run returns a     *)
(* non-nil error at once: no second Connect, no goroutine is started, no    *)
(* line of stdin is read and Send is not called.                            *)
C7_ConnectOnceFailureFatal ==
    /\ connectCalls = (IF runPc = "start" THEN 0 ELSE 1)
    /\ runCase = "connect" =>
          /\ runPc = "returned"
          /\ ~runErr.nil
          /\ pumpPc = "idle"
          /\ evPc = "idle"
          /\ rdPc = "idle"
          /\ checked = <<>>
          /\ sent = <<>>
          /\ stdout = <<>>
          /\ stdinCount = (IF stdinNext.t = "line" THEN 1 ELSE 0)

\* Connect failed and a line waits on stdin, unread.
C7_ConnectFailedLineUnread ==
    /\ runCase = "connect"
    /\ connectCalls = 1
    /\ stdinNext.t = "line"

\* ------------------------------------------------------------------- C8
(* C8: when Connect fails because the SOCKS5 proxy cannot be reached, Run   *)
(* fails with a proxy-connection error (IsProxyError holds, IsServerError   *)
(* does not) and no HTTP request reached the remote peer.                   *)
C8_ProxyFailureIsProxyError ==
    runCase = "connect" /\ connResp.via = "proxy" =>
        /\ IsProxyError(runErr)
        /\ ~IsServerError(runErr)
        /\ remoteHits = 0

\* ------------------------------------------------------------------- C9
\* The GET of an SSE Connect was answered, but not by a 200 event stream.
SSEConnectRefused ==
    /\ kind = "sse"
    /\ connResp.via = "resp"
    /\ connResp.status # 200 \/ ~HasPrefix(connResp.ctype, CTEventStream)

(* C9: an SSE Connect fails whenever the GET's status is not 200 or its     *)
(* content type does not start with text/event-stream; the response body is *)
(* then closed, no connection is kept, readEvents is not started, and Run   *)
(* returns a server-connection error (IsServerError) that is not a          *)
(* proxy-connection error.                                                   *)
C9_SSEConnectRejectsBadResponse ==
    SSEConnectRefused =>
        /\ runCase = "connect"
        /\ tr.body = "closed"
        /\ tr.conn = "nil"
        /\ rdPc = "idle"
        /\ IsServerError(runErr)
        /\ ~IsProxyError(runErr)

\* The GET was answered 404 with an event-stream content type.
C9_Refused404 ==
    /\ SSEConnectRefused
    /\ connResp.status = 404
    /\ runPc = "returned"

\* ------------------------------------------------------------------ C10
\* The blocks of an input: the runs of lines that a blank line ends.
RECURSIVE BlocksOf(_, _, _)
BlocksOf(lines, cur, acc) ==
    IF lines = <<>> THEN acc
    ELSE IF Head(lines) = LBlank
    THEN BlocksOf(Tail(lines), <<>>, Append(acc, cur))
    ELSE BlocksOf(Tail(lines), Append(cur, Head(lines)), acc)

IsDataLine(line) ==
    HasPrefix(line, PrefixData)

HasData(block) ==
    \E i \in 1..Len(block) : IsDataLine(block[i])

\* A field's value: the line less the field prefix and one leading space.
FieldValue(line, prefix) ==
    TrimPrefix(TrimPrefix(line, prefix), Space)

\* The value of the block's last line for the field, or empty.
LastField(block, prefix) ==
    LET at == {i \in 1..Len(block) : HasPrefix(block[i], prefix)}
    IN  IF at = {} THEN <<>>
        ELSE FieldValue(block[CHOOSE i \in at : \A j \in at : j <= i], prefix)

\* The event a block stands for.
BlockEvent(block) ==
    LET datas == SelectSeq(block, IsDataLine)
    IN  [Event |-> LastField(block, PrefixEvent),
         Data  |-> Join([i \in 1..Len(datas) |-> FieldValue(datas[i], PrefixData)],
                        Newline),
         ID    |-> LastField(block, PrefixID)]

\* One event per block with data, in arrival order.
EventsOfBlocks(lines) ==
    LET withData == SelectSeq(BlocksOf(lines, <<>>, <<>>), HasData)
    IN  [i \in 1..Len(withData) |-> BlockEvent(withData[i])]

\* The input is made of blank-line-terminated blocks and was parsed to its end.
ParsedWholeBlocks ==
    /\ pPos = Len(pIn)
    /\ Len(pIn) > 0
    /\ pIn[Len(pIn)] = LBlank

(* C10: for every input made of blank-line-terminated blocks the parser     *)
(* emits exactly one event per block that holds a data: line, in arrival    *)
(* order; the event's data is the block's data: values joined by a newline  *)
(* and its event name and id are the block's event: and id: values, or      *)
(* empty. readEvents keeps the event: and id: of a block without data for   *)
(* the next event.                                                           *)
C10_OneEventPerBlock ==
    ParsedWholeBlocks => pOut = EventsOfBlocks(pIn)

\* ------------------------------------------------------------------ C11
HasPayload(event) ==
    event.Data # <<>>

IsDataOutput(o) ==
    o.kind = "data"

\* Data of the events of `events` that handleSSEEvents writes, in order.
PayloadsOf(events) ==
    LET kept == SelectSeq(events, HasPayload)
    IN  [i \in 1..Len(kept) |-> kept[i].Data]

\* The data on their way from the parser to b.stdout, oldest first: written,
\* being written, queued, and held by a reader blocked on the full queue.
InPipeline ==
    LET written == SelectSeq(stdout, IsDataOutput)
    IN  [i \in 1..Len(written) |-> written[i].data]
        \o (IF evPc = "write" THEN <<evCur.Data>> ELSE <<>>)
        \o PayloadsOf(eventsCh)
        \o (IF rdPc = "emit" THEN PayloadsOf(<<rd.event>>) ELSE <<>>)

\* The data of the events that the lines read so far make up, in wire order.
ProducedByWire ==
    PayloadsOf(ParseAll(pIn, ZeroParser, <<>>))

C12_BlockedReaderStep ==
    rdPc = "emit" /\ rdPc' # "emit" =>
        \/ /\ rdPc' = "scan"
           /\ Len(eventsCh) < QueueCap
           /\ eventsCh' = Append(eventsCh, rd.event)
        \/ /\ rdPc' = "done"
           /\ ctxDone

C12_ReaderNeverOverfills ==
    /\ Len(eventsCh) <= QueueCap
    /\ kind = "sse" /\ rdPc \in {"scan", "emit"} => InPipeline = ProducedByWire

(* C12: the delivery queue never holds more events than its capacity; the   *)
(* reader drops no parsed event while the context is live: on a full queue  *)
(* it waits, and leaves the wait only by queuing the event once there is    *)
(* room or, the context being cancelled, by ending; and a reader waiting on *)
(* the full queue when the context is cancelled eventually ends its wait.   *)
C12_BackpressureNotDrop ==
    /\ []C12_ReaderNeverOverfills
    /\ [][C12_BlockedReaderStep]_vars
    /\ (rdPc = "emit" /\ ctxDone) ~> (rdPc # "emit")

\* The reader waits with an event in hand: the queue is full, the context live.
C12_ReaderBlockedOnFullQueue ==
    /\ kind = "sse"
    /\ rdPc = "emit"
    /\ Len(eventsCh) = QueueCap
    /\ ~ctxDone
    /\ HasPayload(rd.event)

\* ------------------------------------------------------------------ C13
(* C13: b.stdout has one writer at a time: in no reachable state is         *)
(* readStdin inside the write of a synthetic error reply (or of a reply)    *)
(* while handleSSEEvents (handleResponses) is inside the write of an event. *)
(* The two goroutines share b.stdout without a lock, so the state exists.   *)
C13_OneWriterAtATime ==
    ~(pumpPc \in {"errwrite", "outwrite"} /\ evPc = "write")

\* ------------------------------------------------------------------ C14
(* C14: when, while Run waits, the peer ends the stream (a clean end        *)
(* included) or the connection fails, Run eventually returns, and Connect   *)
(* is not called again. A clean end of the stream is reported by nobody:    *)
(* readEvents returns without a word when scanner.Err is nil, and           *)
(* handleResponses returns nil on io.EOF, so Run stays in its select.       *)
C14_StreamEndEndsRun ==
    /\ (runPc = "wait" /\ wireNext.t \in {"eof", "err"}) ~> (runPc = "returned")
    /\ [](connectCalls <= 1)

\* ------------------------------------------------------------------ C15
C15_TimeoutStep ==
    readTimeouts' # readTimeouts =>
        /\ ~ctxDone
        /\ evPc' = "recv"
        /\ errCh' = errCh
        /\ runPc' = runPc

C15_PumpEndStep ==
    evPc \in {"recv", "write"} /\ evPc' = "done" =>
        \/ ctxDone
        \/ evPc = "write"
        \/ wireNext.t \in {"eof", "err"}
        \/ tr.closed

(* C15: a read of the outbound pump that ends on its per-read deadline      *)
(* while the context is live ends neither the pump nor the run: the pump is *)
(* back at its read and nothing is reported; the pump ends only on          *)
(* cancellation, on the end of the stream, on a read error (a closed        *)
(* connection included) or on a failed write to the output stream.          *)
C15_ReadTimeoutIsNotFatal ==
    [][C15_TimeoutStep /\ C15_PumpEndStep]_vars

\* A read timed out, and the read after it returned a message.
C15_MessageAfterTimeout ==
    /\ kind = "sdk"
    /\ readTimeouts = 1
    /\ evPc = "write"
    /\ stdout = <<>>
    /\ ~ctxDone

\* ------------------------------------------------------------------- C16
\* The calls a dial made so far, by kind.
LookupsOf(d) ==
    SelectSeq(d.log, LAMBDA e : e[1] = "lookup")

ProxyDialsOf(d) ==
    SelectSeq(d.log, LAMBDA e : e[1] = "proxy")

\* A target of the form host:port whose host is an IP literal; one whose
\* host is a name.
IsIPTarget(addr) ==
    ~SplitHostPort(addr).err /\ ParseIP(SplitHostPort(addr).host)

IsHostnameTarget(addr) ==
    ~SplitHostPort(addr).err /\ ~ParseIP(SplitHostPort(addr).host)

\* C16: for every dial, (a) under local resolution an IP:port target causes
\* no resolver call and the proxy is dialed with the target unchanged; (b)
\* under local resolution a hostname:port target causes exactly one resolver
\* call, for that host, made before any proxy dial, and the proxy is dialed
\* with the first resolved address in place of the host and the same port;
\* (c) under remote resolution no resolver call is made and the proxy is
\* dialed with the target unchanged, hostname or IP.
C16_ResolutionByMode ==
    dial.entry # "none" =>
        LET lk == LookupsOf(dial)
            px == ProxyDialsOf(dial)
            sp == SplitHostPort(dial.addr)
        IN  /\ Len(px) <= 1
            /\ (~dial.remoteDNS /\ IsIPTarget(dial.addr)) =>
                   /\ Len(lk) = 0
                   /\ \A i \in 1..Len(px) : px[i][2] = dial.addr
            /\ (~dial.remoteDNS /\ IsHostnameTarget(dial.addr)) =>
                   /\ Len(lk) = 1
                   /\ dial.log[1] = <<"lookup", sp.host>>
                   /\ \A i \in 1..Len(px) :
                        /\ Len(dial.ips) > 0
                        /\ SplitHostPort(px[i][2]).host = dial.ips[1]
                        /\ SplitHostPort(px[i][2]).port = sp.port
            /\ dial.remoteDNS =>
                   /\ Len(lk) = 0
                   /\ \A i \in 1..Len(px) : px[i][2] = dial.addr

\* Witness for C16: a hostname was dialed under local resolution, the
\* resolver answered with two addresses, and the dial returned a connection
\* made to the first of them.
C16_HostnameDialedResolved ==
    /\ ~dial.remoteDNS
    /\ dial.addr = T_Host
    /\ dial.pc = "returned"
    /\ dial.conn
    /\ dial.ips = <<IP_A, IP_B>>
    /\ dial.log = <<<<"lookup", <<"h", ".", "i", "o">>>>,
                    <<"proxy", <<"5", ".", "6", ".", "7", ".", "8", ":", "8", "0">>>>>>

\* ------------------------------------------------------------------- C17
\* C17: a DialContext that ends because its context was cancelled returns
\* the context's error and no connection; and once the dial has returned and
\* no attempt of it is still running, every connection the attempt opened is
\* either the one handed to the caller or closed.
C17_CancelledDialLeavesNoConn ==
    /\ (dial.pc = "returned" /\ dial.cause = "ctx") =>
           ErrorsIs(dial.err, "context canceled") /\ ~dial.conn
    /\ (dial.pc = "returned" /\ dial.gor # "running") =>
           dial.opened = dial.closed + (IF dial.conn THEN 1 ELSE 0)

\* ------------------------------------------------------------------- C18
\* The positions of the Close calls in the call record.
CloseCallsAt ==
    {i \in 1..Len(apiCalls) : apiCalls[i].op = "Close"}

\* The transport was connected when Close was first called.
ConnectedAtFirstClose ==
    \E i \in CloseCallsAt :
        /\ \A j \in CloseCallsAt : i <= j
        /\ \E c \in 1..(i - 1) : apiCalls[c].op = "Connect" /\ apiCalls[c].err.nil

\* A Close call on a transport that is already closed.
C18_RepeatedCloseStep ==
    (closeCalls' = closeCalls + 1 /\ tr.closed) =>
        /\ tr' = tr
        /\ eventsCh' = eventsCh
        /\ apiCalls'[Len(apiCalls')].err.nil

\* C18: however many times and in whatever order Close is called, the
\* streaming transport's connection is closed at most once, and exactly once
\* when the transport was connected at the first Close; the Request/Response
\* transport's delivery queue is closed exactly once; and every Close after
\* the first returns nil and changes nothing.
C18_CloseIdempotent ==
    /\ [](/\ tr.connCloses <= 1
          /\ tr.chCloses <= 1
          /\ (kind = "sse" /\ ConnectedAtFirstClose) => tr.connCloses = 1
          /\ (kind = "streamable" /\ closeCalls >= 1) => tr.chCloses = 1
          /\ \A i \in CloseCallsAt : apiCalls[i].closed => apiCalls[i].err.nil)
    /\ [][C18_RepeatedCloseStep]_vars

\* Witness for C18: a connected streaming transport was closed twice and its
\* connection was closed once.
C18_ConnectedClosedTwice ==
    /\ kind = "sse"
    /\ Len(apiCalls) = 3
    /\ apiCalls[1].op = "Connect" /\ apiCalls[1].err.nil
    /\ apiCalls[2].op = "Close" /\ ~apiCalls[2].closed
    /\ apiCalls[3].op = "Close" /\ apiCalls[3].closed
    /\ closeCalls = 2
    /\ tr.connCloses = 1

\* ------------------------------------------------------------------- C19
\* The Send calls made on a Request/Response transport that was not closed.
OpenSendCalls ==
    {i \in 1..Len(apiCalls) :
        kind = "streamable" /\ apiCalls[i].op = "Send" /\ ~apiCalls[i].closed}

\* The POST got a response, its status is 200-299 and its body is valid JSON.
IsGoodReply(x) ==
    x.via = "resp" /\ x.status >= 200 /\ x.status <= 299 /\ JsonValid(x.body)

\* The call enqueued one event carrying the response body and returned nil.
Delivered(c) ==
    c.err.nil /\ c.qAfter = Append(c.qBefore, [Data |-> c.x.body])

\* The call returned an error and enqueued nothing.
Refused(c) ==
    ~c.err.nil /\ ~c.panic /\ c.qAfter = c.qBefore

StreamableConnectCalls ==
    {i \in 1..Len(apiCalls) : kind = "streamable" /\ apiCalls[i].op = "Connect"}

\* C20: a Request/Response Connect returns nil exactly when the OPTIONS
\* probe got a response whose status is below 400 or is 405, and an error
\* when the probe could not be completed or the status is any other value
\* from 400 up; it starts no background reader and leaves the delivery queue
\* as it was, which is empty as long as no Send has been called.
C20_ConnectByProbeStatus ==
    /\ \A i \in StreamableConnectCalls :
          /\ apiCalls[i].err.nil <=>
                 /\ apiCalls[i].x.via = "resp"
                 /\ (apiCalls[i].x.status < 400 \/ apiCalls[i].x.status = 405)
          /\ ~apiCalls[i].reader
          /\ apiCalls[i].qAfter = apiCalls[i].qBefore
    /\ kind = "streamable" => rdPc = "idle"
    /\ (kind = "streamable" /\ \A i \in 1..Len(apiCalls) : apiCalls[i].op # "Send")
           => eventsCh = <<>>

\* Witness for C20: three probes, answered 399, 400 and 405; the first and
\* the last Connect succeeded, the second failed, and no reader runs.
C20_Probes399_400_405 ==
    /\ kind = "streamable"
    /\ Len(apiCalls) = 3
    /\ \A i \in 1..3 : apiCalls[i].op = "Connect"
    /\ apiCalls[1].x.status = 399 /\ apiCalls[1].err.nil
    /\ apiCalls[2].x.status = 400 /\ ~apiCalls[2].err.nil
    /\ apiCalls[3].x.status = 405 /\ apiCalls[3].err.nil
    /\ rdPc = "idle"
    /\ eventsCh = <<>>

C22_ParseTransportTypeTable ==
    (app.fn = "ParseTransportType" /\ app.done) =>
        app.out =
            IF app.in \in {<<"s", "s", "e">>, <<"S", "S", "E">>, <<"S", "s", "e">>}
            THEN "sse"
            ELSE IF app.in \in {<<"s", "t", "r", "e", "a", "m", "a", "b", "l", "e">>,
                                <<"S", "t", "r", "e", "a", "m", "a", "b", "l", "e">>,
                                <<"h", "t", "t", "p">>,
                                <<"H", "T", "T", "P">>}
            THEN "streamable"
            ELSE "auto"

\* Witness for C22: "HTTP" was parsed to the Streamable HTTP kind.
C22_UpperCaseHTTPParsed ==
    /\ app.fn = "ParseTransportType" /\ app.done
    /\ app.in = <<"H", "T", "T", "P">>
    /\ app.out = "streamable"

\* ------------------------------------------------------------------- C23
\* C23: an error made from nil is nil however often it is wrapped, and
\* FormatUserFriendlyError gives the empty string for it; an error whose
\* chain ends in the proxy, server or timeout sentinel satisfies exactly that
\* kind's predicate, and any other error (an unrelated one, even with the
\* text of a sentinel, or the connection-closed sentinel) satisfies none;
\* FormatUserFriendlyError gives the kind's advice for a proxy, server,
\* timeout or configuration error and the error's own text otherwise.
C23_ErrorKindsConsistent ==
    (app.fn = "errors" /\ app.done) =>
        LET leaf == app.in.leaf
            o    == app.out
            own  == [i \in 1..(2 * app.in.wraps) |->
                        IF i % 2 = 1 THEN "test" ELSE ": "]
        IN  /\ o.err.nil <=> leaf = "nil"
            /\ o.isProxy <=> leaf = "ErrProxyConnection"
            /\ o.isServer <=> leaf = "ErrServerConnection"
            /\ o.isTimeout <=> leaf = "ErrTimeout"
            /\ o.friendly =
                 CASE leaf = "nil" -> <<>>
                   [] leaf \in {"ErrProxyConnection", "ErrServerConnection",
                                "ErrTimeout", "ErrInvalidConfig"} ->
                          <<Remediation(leaf)>>
                   [] leaf = "ErrConnectionClosed" -> own \o <<"connection closed">>
                   [] leaf = "other" -> own \o <<"some other error">>
                   [] OTHER -> own \o <<"failed to connect to SOCKS proxy">>

\* Witness for C23: the timeout sentinel wrapped twice is a timeout error,
\* not a proxy or server error, and is shown as the timeout advice.
C23_TimeoutWrappedTwice ==
    /\ app.fn = "errors" /\ app.done
    /\ app.in = [leaf |-> "ErrTimeout", wraps |-> 2]
    /\ app.out.err.text = <<"test", ": ", "test", ": ", "request timeout">>
    /\ app.out.isTimeout /\ ~app.out.isProxy /\ ~app.out.isServer
    /\ app.out.friendly = <<Remediation("ErrTimeout")>>

\* ------------------------------------------------------------------- C24
\* The URL parses and names a host.
HasHost(u) ==
    ~URLParse(u).err /\ URLParse(u).Host # <<>>

\* The first check of the claim's list that the configuration fails, 0 when
\* it passes them all.
FirstFailingCheck(c) ==
    IF c.ProxyAddr = <<>> THEN 1
    ELSE IF ~HasPrefix(c.ProxyAddr, PrefixSocks5) /\ ~HasPrefix(c.ProxyAddr, PrefixSocks5h)
    THEN 2
    ELSE IF ~HasHost(c.ProxyAddr) THEN 3
    ELSE IF c.ServerURL = <<>> THEN 4
    ELSE IF ~HasPrefix(c.ServerURL, PrefixHTTP) /\ ~HasPrefix(c.ServerURL, PrefixHTTPS)
    THEN 5
    ELSE IF ~HasHost(c.ServerURL) THEN 6
    ELSE IF c.Timeout <= 0 THEN 7
    ELSE 0

\* C24: Validate returns nil exactly when the proxy address is non-empty,
\* starts with socks5:// or socks5h:// and has a host, the server URL is
\* non-empty, starts with http:// or https:// and has a host, and the timeout
\* is positive; otherwise it returns the error of the first of these checks
\* that fails.
C24_ValidateFirstFailingCheck ==
    (app.fn = "Validate" /\ app.done) =>
        /\ app.out.check = FirstFailingCheck(app.in)
        /\ app.out.err.nil <=> FirstFailingCheck(app.in) = 0

\* ------------------------------------------------------------------- C25
\* The lines that fmt.Fprintln(b.stdout, data) puts on the output stream:
\* one more than the newlines inside data.
LinesOf(data) ==
    1 + Cardinality({i \in DOMAIN data : <<data[i]>> = Newline})

\* handleSSEEvents takes the oldest event off the delivery queue.
EventConsumed ==
    /\ kind = "sse"
    /\ evPc = "recv"
    /\ Len(eventsCh) > 0
    /\ eventsCh' = Tail(eventsCh)

(* C25: for a Streaming transport every event the outbound pump takes off   *)
(* the delivery queue produces exactly one line on the local output stream, *)
(* holding the event's data: the pump goes on to write the event it took,   *)
(* that write is one line also when the data spans several lines or is      *)
(* empty, and the write appends that line and nothing else.                 *)
C25_OneLinePerConsumedEvent ==
    [][/\ EventConsumed =>
              /\ evPc' = "write"
              /\ evCur' = Head(eventsCh)
              /\ LinesOf(Head(eventsCh).Data) = 1
       /\ (kind = "sse" /\ evPc = "write" /\ evPc' # "write") =>
              stdout' = Append(stdout, DataLine(evCur.Data))]_vars

\* ------------------------------------------------------------------- C26
\* readStdin calls b.transport.Send in this step.
SendCalled ==
    Len(sent') = Len(sent) + 1

(* C26: the transport is never used after teardown: the inbound pump does   *)
(* not call Send once Run's deferred function has closed the transport.     *)
C26_NoSendAfterTeardown ==
    [][SendCalled => (closeCalls = 0 /\ ~tr.closed)]_vars

\* ------------------------------------------------------------------- C27
(* C27: after Close has been called on a connected Streaming transport the  *)
(* background reader eventually terminates, whether it was blocked reading  *)
(* the connection or blocked handing an event to the full delivery queue.   *)
C27_ReaderEndsAfterClose ==
    (tr.closed /\ tr.body = "closed" /\ rdPc \in {"scan", "emit"}) ~> (rdPc = "done")

\* ------------------------------------------------------------------- C28
IsOKSend(e) ==
    e.res = "ok"

\* The replies to the lines sent successfully so far, in the order of the
\* requests.
RepliesDue ==
    LET oks == SelectSeq(sent, IsOKSend)
    IN  [i \in 1..Len(oks) |-> ReplyBody(oks[i].data)]

\* The replies written to the local output stream so far, in order.
RepliesWritten ==
    LET written == SelectSeq(stdout, IsDataOutput)
    IN  [i \in 1..Len(written) |-> written[i].data]

(* C28: with a Request/Response transport replies are paired 1:1 with sends *)
(* and delivered inline: the replies on the output stream are the replies   *)
(* to the successfully sent lines, in the order of the requests, at most    *)
(* the newest one still missing; and whenever the pump is reading or        *)
(* sending the next line, the reply to every line sent successfully before  *)
(* has been written.                                                         *)
C28_RepliesInlineInOrder ==
    kind = "streamable" =>
        /\ Len(RepliesWritten) <= Len(RepliesDue)
        /\ RepliesWritten = SubSeq(RepliesDue, 1, Len(RepliesWritten))
        /\ Len(RepliesDue) <= Len(RepliesWritten) + 1
        /\ pumpPc \in {"scan", "send", "errwrite"} => RepliesWritten = RepliesDue

\* Witness for C28: two different requests were sent and the pump is back at
\* reading, with both replies on the output in the order of the requests.
C28_TwoRepliesInRequestOrder ==
    /\ kind = "streamable"
    /\ Len(sent) = 2
    /\ sent[1].data = Req2 /\ sent[2].data = Req1
    /\ pumpPc = "scan"
    /\ stdout = <<DataLine(ReplyBody(Req2)), DataLine(ReplyBody(Req1))>>

\* ------------------------------------------------------------------- C29
\* The parser takes the line `line` in this step.
Parses(line) ==
    /\ pPos < Len(pIn)
    /\ pIn[pPos + 1] = line
    /\ pPos' = pPos + 1

(* C29: after the streaming parser has processed an empty line its          *)
(* accumulation state (pending data lines, event name, id) is empty, also   *)
(* when the empty line ended a block that had no data: line.                *)
C29_BlankLineResetsParser ==
    [][Parses(LBlank) => rd' = ZeroParser]_vars

\* ------------------------------------------------------------------- C30
\* The text of a line before its first colon (the whole line without one).
FieldNameOf(line) ==
    IF IndexByte(line, ":") = 0 THEN line
    ELSE SubSeq(line, 1, IndexByte(line, ":") - 1)

\* A comment line, or a line naming a field other than data, event and id.
IsIgnoredLine(line) ==
    /\ line # <<>>
    /\ \/ Head(line) = ":"
       \/ FieldNameOf(line) \notin {<<"d", "a", "t", "a">>,
                                    <<"e", "v", "e", "n", "t">>,
                                    <<"i", "d">>}

(* C30: a line beginning with ':' (a comment) or naming an unrecognized     *)
(* field such as retry: leaves the streaming parser's state as it was       *)
(* (pending data lines, event name and id) and emits no event.              *)
C30_IgnoredLineStep ==
    [][\A line \in WireLines :
          (Parses(line) /\ IsIgnoredLine(line)) => (rd' = rd /\ pOut' = pOut)]_vars

\* Witness for C30: a comment and a retry: line were parsed in the middle of
\* a block, and the block's id and data are still pending, nothing emitted.
C30_CommentAndRetryInsideBlock ==
    /\ pPos = 4
    /\ pIn = <<LID_1, LData_a, LComment, LRetry>>
    /\ rd = [event |-> [Event |-> <<>>, Data |-> <<>>, ID |-> <<"1">>],
             dataLines |-> <<(<<"a">>)>>]
    /\ pOut = <<>>

\* ------------------------------------------------------------------- C31
(* C31: the synthetic error reply written after a send failure is one line  *)
(* with jsonrpc "2.0", an error object (code -32000 and the error's text)   *)
(* and the id of the failed message when the message has an id that is a    *)
(* number or a string, and a null id otherwise: a message without id or     *)
(* with a null id, or a valid JSON value that is not an object.             *)
C31_ErrorReplyCarriesRequestID ==
    (app.fn = "sendErrorResponse" /\ app.done) =>
        /\ Len(app.out) = 1
        /\ app.out[1].kind = "error"
        /\ app.out[1].jsonrpc = "2.0"
        /\ app.out[1].code = -32000
        /\ app.out[1].message = app.in.msg
        /\ app.out[1].id =
               IF IDMember(app.in.request).kind \in {"number", "string"}
               THEN IDMember(app.in.request).tok
               ELSE IDNull

\* ------------------------------------------------------------------- C32
(* C32: once the run context is cancelled the inbound pump finishes at most *)
(* the send already in flight: no step taken after the cancellation passes  *)
(* a line to Send or takes a line past the pump's cancellation check, so a  *)
(* line whose read completes after the cancellation is neither sent nor     *)
(* answered; the only lines the pump still writes are the error reply or    *)
(* the reply of the last send made before.                                  *)
C32_NoSendAfterCancel ==
    [][ctxDone =>
          /\ Len(sent') = Len(sent)
          /\ checked' = checked
          /\ (pumpPc \in {"errwrite", "outwrite"} /\ stdout' # stdout) =>
                 \/ stdout' = Append(stdout, ErrorResponse(sent[Len(sent)].data,
                                                            sent[Len(sent)].err))
                 \/ stdout' = Append(stdout, DataLine(ReplyBody(sent[Len(sent)].data)))
                 \/ evPc = "write"]_vars

\* Witness for C32: the context was cancelled while a send was in flight;
\* the send failed and was answered, and the next line, read after the
\* cancellation, was dropped: one line checked, one sent, two read.
C32_LineAfterCancelDropped ==
    /\ ctxDone
    /\ stdinCount = 2
    /\ stdinNext = NoLine
    /\ Len(checked) = 1
    /\ Len(sent) = 1
    /\ sent[1].err = "context canceled"
    /\ Len(stdout) = 1
    /\ pumpPc = "done"

\* ------------------------------------------------------------------- C33
\* The sequence `sub` occurs in `s` as a run of consecutive elements.
Contains(s, sub) ==
    \E i \in 1..(Len(s) - Len(sub) + 1) : SubSeq(s, i, i + Len(sub) - 1) = sub

\* The dial looked the target's host up under local resolution and the
\* resolver has answered with an error or with no address.
ResolutionFailed ==
    /\ ~dial.remoteDNS
    /\ IsHostnameTarget(dial.addr)
    /\ Len(LookupsOf(dial)) = 1
    /\ dial.pc # "resolving"
    /\ dial.ips = <<>>

\* C33: under local resolution, when resolving the target's hostname fails
\* (the resolver returns an error, or no address), the dial returns an error
\* and no connection, the error's text names the original hostname, and no
\* dial to the proxy is attempted.
C33_ResolutionFailureNamesHost ==
    ResolutionFailed =>
        /\ dial.pc = "returned"
        /\ ~dial.err.nil
        /\ ~dial.conn
        /\ Contains(dial.err.text, SplitHostPort(dial.addr).host)
        /\ ProxyDialsOf(dial) = <<>>
        /\ dial.opened = 0

\* Witness for C33: the lookup of h.io failed with the resolver's error and
\* the dial returned the error naming h.io, the proxy never dialed.
C33_NoSuchHost ==
    /\ ResolutionFailed
    /\ dial.addr = T_Host
    /\ dial.err.text = <<"Failed to resolve hostname '", "h", ".", "i", "o",
                         "' locally", ": ", "no such host">>
    /\ dial.log = <<<<"lookup", <<"h", ".", "i", "o">>>>>>

\* ---------------------------------------------------------------- C34
\* The call a step has just recorded, when the step is a call of Send.
SendStep ==
    /\ Len(apiCalls') = Len(apiCalls) + 1
    /\ apiCalls'[Len(apiCalls')].op = "Send"

\* The POST of an exchange failed, or was answered outside 200-299.
PostRefused(x) ==
    x.via # "resp" \/ x.status < 200 \/ x.status > 299

\* A recorded Send that was made while the reader stood blocked in its
\* hand-off: the queue full, the context live.
SentPastBlockedReader(c) ==
    /\ c.op = "Send"
    /\ c.rdAt = "emit"
    /\ ~c.done
    /\ Len(c.qBefore) = QueueCap

\* C34: a Send of the Streaming transport returns an error exactly when the
\* POST failed or the status is outside 200-299; whatever it returns, the
\* step leaves the connection, the closed flag, the delivery queue and the
\* reader where they were and does not panic; and in every state, the reader
\* blocked on a full queue included, Send has an outcome for every exchange
\* (it waits for nothing of the transport).
C34_SendIndependentOfReader ==
    /\ [](\A x \in SendExchanges(kind, ctxDone, Req1) :
             \E r \in SendResults(kind, tr, ctxDone, eventsCh, x) :
                r.q = eventsCh /\ ~r.panic)
    /\ [][SendStep =>
             LET c == apiCalls'[Len(apiCalls')]
             IN  /\ (~c.err.nil) <=> PostRefused(c.x)
                 /\ ~c.panic
                 /\ tr' = tr
                 /\ eventsCh' = eventsCh
                 /\ rdPc' = rdPc
                 /\ rd' = rd
                 /\ sseErrCh' = sseErrCh]_vars

\* Two Sends went through while the reader was blocked on the full queue, a
\* 300 refused and a 299 accepted, and the reader is blocked still.
C34_SendWhileReaderBlocked ==
    /\ Len(apiCalls) = 3
    /\ SentPastBlockedReader(apiCalls[2])
    /\ apiCalls[2].x.via = "resp" /\ apiCalls[2].x.status = 300
    /\ ~apiCalls[2].err.nil
    /\ SentPastBlockedReader(apiCalls[3])
    /\ apiCalls[3].x.via = "resp" /\ apiCalls[3].x.status = 299
    /\ apiCalls[3].err.nil
    /\ rdPc = "emit"
    /\ Len(eventsCh) = QueueCap

\* ---------------------------------------------------------------- C35
\* C35: no Send of the Request/Response transport reaches its hand-off with
\* the delivery queue already closed by Close (a send on a closed channel,
\* which panics), whatever the interleaving of the pump's Send with Run's
\* teardown.
C35_NoSendOnClosedQueue ==
    kind = "streamable" => ~(tr.chClosed /\ pumpPc = "panic")

\* ---------------------------------------------------------------- C36
\* The Connect of this run failed.
ConnectFailed ==
    /\ connectCalls = 1
    /\ ~TransportConnect(kind, NewTransport, connResp).err.nil

\* C36: once Run has returned, a nil result means the context was cancelled
\* and Run left by the ctx.Done case; a return on a pump's error or on the
\* transport's error follows a successful Connect and carries a non-nil
\* error; and a failed Connect has made Run return a non-nil error at once.
C36_NilOnlyOnCancel ==
    /\ (runPc = "returned" /\ runErr.nil) => (ctxDone /\ runCase = "ctx")
    /\ (runPc = "returned" /\ runCase \in {"errCh", "transport"}) =>
           (~runErr.nil /\ ~ConnectFailed)
    /\ ConnectFailed => (runPc = "returned" /\ runCase = "connect" /\ ~runErr.nil)

\* Cancelled with a pump's error waiting on errCh: Run took the ctx.Done case
\* and returned nil.
C36_NilWhileErrorQueued ==
    /\ runPc = "returned"
    /\ runErr.nil
    /\ runCase = "ctx"
    /\ ctxDone
    /\ Len(errCh) = 1
    /\ ~errCh[1].nil

\* ---------------------------------------------------------------- C37
\* The step at which scanner.Scan reports the end of stdin.
EOFStep ==
    /\ pumpPc = "scan"
    /\ stdinNext.t = "eof"
    /\ pumpPc' = "done"

\* The inbound pump has ended at the end of stdin; the context is live.
EndedAtEOF ==
    /\ pumpPc = "done"
    /\ stdinNext.t = "eof"
    /\ ~ctxDone

\* An event with data is waiting for the outbound pump of a Streaming bridge.
EventWaiting ==
    /\ kind = "sse"
    /\ evPc = "recv"
    /\ Len(eventsCh) > 0
    /\ Head(eventsCh).Data # <<>>

\* C37: at the end of stdin the inbound pump ends and reports nothing, and
\* the step touches neither Run nor the outbound pump nor stdout; a run whose
\* inbound pump ended that way with the context live has returned, if at
\* all, on a reported error, which for the Streaming and SDK bridges is not
\* the inbound pump's; and an event waiting in the queue after the pump's
\* end, nothing written so far, is still written to stdout unless the context
\* is cancelled first.
C37_StdinEOFDoesNotEndRun ==
    /\ [][EOFStep => /\ errCh' = errCh
                     /\ runPc' = runPc /\ runErr' = runErr /\ runCase' = runCase
                     /\ evPc' = evPc /\ eventsCh' = eventsCh
                     /\ stdout' = stdout /\ tr' = tr]_vars
    /\ []((EndedAtEOF /\ runPc = "returned") =>
              /\ ~runErr.nil
              /\ runCase \in {"errCh", "transport"}
              /\ kind # "streamable" => runErr.Message # "stdin reader error")
    /\ (EndedAtEOF /\ EventWaiting /\ stdout = <<>>) ~> (stdout # <<>> \/ ctxDone)

\* As in the integration test: one request was forwarded, stdin ended, the
\* inbound pump is gone, Run is waiting still and an event is in the queue
\* for the outbound pump.
C37_EventWaitingAfterEOF ==
    /\ EndedAtEOF
    /\ EventWaiting
    /\ stdinCount = 1
    /\ Len(sent) = 1
    /\ sent[1].res = "ok"
    /\ runPc = "wait"
    /\ errCh = <<>>
    /\ stdout = <<>>

\* ---------------------------------------------------------------- C38
\* C38: once Run has returned, its deferred Close done, no step writes to
\* stdout: no event, no reply and no synthetic error reply.
C38_NoWriteAfterReturn ==
    [][runPc = "returned" => stdout' = stdout]_vars

\* ---------------------------------------------------------------- C39
\* The reader's read of the response body has failed, or will: the body is
\* closed or the stream is broken.
ReaderFailing ==
    /\ Alive
    /\ rdPc = "scan"
    /\ (tr.body = "closed" \/ wireNext.t = "err")

\* The inbound pump's read of stdin has failed.
PumpFailing ==
    /\ Alive
    /\ pumpPc = "scan"
    /\ stdinNext.t = "err"

\* C39: the error channels never hold more than their capacity, one
\* transport error and two pump errors; and a reader or pump whose read has
\* failed can always take the step that reports the error and ends it,
\* whatever Run has done and whatever is queued already.
C39_ErrorReportNeverBlocks ==
    /\ Len(sseErrCh) <= SSEErrChCap
    /\ Len(errCh) <= RunErrChCap
    /\ ReaderFailing => ENABLED RdScan
    /\ PumpFailing => ENABLED PumpScan

\* Run returned on one pump's error; after that the other pump failed and
\* queued its error, and the reader, its body closed by the teardown, queued
\* the transport's: both reporters ended with nobody left to receive.
C39_ReportedAfterRunReturned ==
    /\ kind = "sse"
    /\ runPc = "returned"
    /\ runCase = "errCh"
    /\ ~ctxDone
    /\ Len(errCh) = 1
    /\ Len(sseErrCh) = 1
    /\ rdPc = "done"
    /\ pumpPc = "done"
    /\ evPc = "done"

\* ---------------------------------------------------------------- C40
\* C40: in a Request/Response bridge the delivery queue never holds more
\* than one reply, and it is empty whenever the inbound pump is reading a
\* line, has a Send in flight or is writing: the reply of a successful Send
\* is taken off the queue before the next Send is issued.
C40_AtMostOneUndeliveredReply ==
    kind = "streamable" =>
        /\ Len(eventsCh) <= 1
        /\ pumpPc \in {"scan", "send", "errwrite", "outwrite"} => eventsCh = <<>>

\* The first reply is on stdout and the second Send has just put its reply
\* on the queue, the only one there, for the pump to take.
C40_SecondReplyAloneInQueue ==
    /\ kind = "streamable"
    /\ Len(sent) = 2
    /\ sent[1].res = "ok"
    /\ sent[2].res = "ok"
    /\ stdout = <<DataLine(ReplyBody(sent[1].data))>>
    /\ eventsCh = <<[Data |-> ReplyBody(sent[2].data)]>>
    /\ pumpPc = "await"
====
